---- MODULE Spec2Model ----
(***************************************************************************)
(* Model of the document-tree pipeline of the mindmap backend:             *)
(*   parser/parser.py      nodes_to_toc_tree        (TocTreeBuilder)       *)
(*   llm/llm_transform.py  clean_toc_tree           (TreeCleaner)          *)
(*   llm/fallback_llm.py   split_tree_into_chunks   (ChunkSplitter)        *)
(*   llm/llm_transform.py  transform_toc_tree_to_api_format                *)
(*   llm/fallback_llm.py   transform_large_tree_chunked                    *)
(*   main.py               collapse_root_unary_nodes (TreeNormalizer)      *)
(*   main.py, pipeline.py  run_pipeline                                    *)
(*   main.py               get_mindmap, get_history_item (read handlers)   *)
(*                                                                         *)
(* Python values are modelled as follows.                                  *)
(*   dict   a record; an absent key is a field absent from DOMAIN          *)
(*   list   a sequence                                                     *)
(*   str    body text: [str |-> runs], runs a run-length encoding of the   *)
(*          characters, <<[c |-> "a", n |-> 3000]>> being 3000 letters;    *)
(*          titles and other short labels: TLA+ strings                    *)
(*   None   the record None                                                *)
(* Each component has its own specification; the variables of the other    *)
(* components stay at their idle values.  SpecPipeline runs the            *)
(* transformer's actions as step 4 of run_pipeline; SpecStages runs the    *)
(* cleaner and the splitter, SpecServer the read handlers.                 *)
(***************************************************************************)
EXTENDS Integers, Sequences, FiniteSets, TLC

VARIABLES
  \* clean_toc_tree(node, max_section_text_length): arguments and result
  cl_node, cl_max_len, cl_result,
  \* the caller's tree object as it is now (cl_node is the tree as it was
  \* passed in), and the result of cleaning the result once more
  cl_node_now, cl_again,
  \* split_tree_into_chunks(tree, chunk_size): arguments, result, and
  \* whether the call has returned
  sp_tree, sp_chunk_size, sp_chunks, sp_returned,
  \* the caller's tree object as it is now
  sp_tree_now,
  \* nodes_to_toc_tree(nodes): the nodes processed so far and the tree
  nodes, root,
  \* collapse_root_unary_nodes(node): the tree before any call, the tree
  \* (mutated in place by each call), the promotions of the last call, the
  \* number of calls made, and the tree as the first call returned it
  nz_input, nz_node, nz_iteration, nz_calls, nz_first,
  \* transform_toc_tree_to_api_format(toc_tree_data, output_file): where the
  \* call stands, whether OPENAI_API_KEY is set, the arguments, the cleaned
  \* tree and its token count, the chunks and the number of the chunk whose
  \* LLM call is awaited, previous_response, what the call returned or
  \* raised, and the log of what it did (LLM calls and their outcomes,
  \* splitter invocations, file writes) in order
  tr_pc, tr_api_key, tr_toc_tree_data, tr_output_file, tr_cleaned, tr_toc_tokens,
  tr_chunks, tr_chunk_num, tr_previous_response, tr_outcome, tr_log,
  \* run_pipeline(data_folder, output_md, output_toc, output_mindmap,
  \* skip_transform): which implementation runs (main.py or pipeline.py),
  \* where the call stands, the data folder, output_mindmap, skip_transform,
  \* the number of
  \* find_document_file calls made, document_path, the TOC tree built, the
  \* files run_pipeline itself wrote, in order, and what it returned or
  \* raised
  pl_impl, pl_pc, pl_data_folder, pl_output_mindmap, pl_skip_transform, pl_lookups,
  pl_document_path,
  pl_toc_tree, pl_writes, pl_outcome,
  \* the API's read handlers: the files under LOCAL_STORAGE_DIR and the
  \* legacy mindmap file as they are now and as they were before any
  \* request, current_document_id, the last request and the file it was
  \* answered from, its response, and the number of requests served
  sv_disk, sv_disk_before, sv_current_document_id, sv_request, sv_source, sv_response,
  sv_reads

vars_cleaner == <<cl_node, cl_max_len, cl_result, cl_node_now, cl_again>>
vars_splitter == <<sp_tree, sp_chunk_size, sp_chunks, sp_returned, sp_tree_now>>
vars_builder == <<nodes, root>>
vars_normalizer == <<nz_input, nz_node, nz_iteration, nz_calls, nz_first>>
vars_transformer ==
  <<tr_pc, tr_api_key, tr_toc_tree_data, tr_output_file, tr_cleaned, tr_toc_tokens,
    tr_chunks, tr_chunk_num, tr_previous_response, tr_outcome, tr_log>>
vars_pipeline ==
  <<pl_impl, pl_pc, pl_data_folder, pl_output_mindmap, pl_skip_transform, pl_lookups,
    pl_document_path, pl_toc_tree, pl_writes, pl_outcome>>
vars_server ==
  <<sv_disk, sv_disk_before, sv_current_document_id, sv_request, sv_source, sv_response,
    sv_reads>>
vars ==
  <<vars_cleaner, vars_splitter, vars_builder, vars_normalizer, vars_transformer,
    vars_pipeline, vars_server>>

None == [none |-> TRUE]

(***************************************************************************)
(* dicts                                                                   *)
(***************************************************************************)
\* d[k] = v
Put(d, k, v) == [f \in (DOMAIN d) \cup {k} |-> IF f = k THEN v ELSE d[f]]

\* d.pop(k, None)
Pop(d, k) == [f \in (DOMAIN d) \ {k} |-> d[f]]

\* k in d
Has(d, k) == k \in DOMAIN d

\* d.get(k, default)
Get(d, k, default) == IF k \in DOMAIN d THEN d[k] ELSE default

RECURSIVE SumSeq(_)
SumSeq(s) == IF s = <<>> THEN 0 ELSE s[1] + SumSeq(Tail(s))

RECURSIVE Flatten(_)
Flatten(ss) == IF ss = <<>> THEN <<>> ELSE ss[1] \o Flatten(Tail(ss))

(***************************************************************************)
(* str: run-length encoded character sequences.  The alphabet is a letter, *)
(* the period, the ellipsis character U+2026 and the blank (the whitespace *)
(* that str.strip() removes).  A text is canonical: every run has n >= 1,  *)
(* adjacent runs hold different characters, so equal strings have equal    *)
(* encodings.                                                              *)
(***************************************************************************)
\* "u2026" stands for the one-character horizontal ellipsis U+2026.
Chars == {"a", ".", "u2026", " "}

Run(c, n) == [c |-> c, n |-> n]

\* c * n
Rep(c, n) == IF n <= 0 THEN <<>> ELSE <<Run(c, n)>>

\* len(s)
TextLen(t) == SumSeq([i \in DOMAIN t |-> t[i].n])

\* s + t
Concat(s, t) ==
  IF s = <<>> THEN t
  ELSE IF t = <<>> THEN s
  ELSE IF s[Len(s)].c = t[1].c
       THEN SubSeq(s, 1, Len(s) - 1)
              \o <<Run(t[1].c, s[Len(s)].n + t[1].n)>>
              \o Tail(t)
       ELSE s \o t

\* s.count(ch)
CountChar(t, ch) == SumSeq([i \in DOMAIN t |-> IF t[i].c = ch THEN t[i].n ELSE 0])

\* s[:k]
RECURSIVE Prefix(_, _)
Prefix(t, k) ==
  IF k <= 0 \/ t = <<>> THEN <<>>
  ELSE IF t[1].n <= k THEN <<t[1]>> \o Prefix(Tail(t), k - t[1].n)
  ELSE <<Run(t[1].c, k)>>

RECURSIVE LStrip(_)
LStrip(t) == IF t # <<>> /\ t[1].c = " " THEN LStrip(Tail(t)) ELSE t

RECURSIVE RStrip(_)
RStrip(t) ==
  IF t # <<>> /\ t[Len(t)].c = " " THEN RStrip(SubSeq(t, 1, Len(t) - 1)) ELSE t

\* s.strip()
Strip(t) == RStrip(LStrip(t))

\* a Python str value
Str(t) == [str |-> t]

IsStr(v) == Has(v, "str")

\* "..."
ELLIPSIS_MARKER == Rep(".", 3)

(***************************************************************************)
(* llm_transform.py: clean_toc_tree                                        *)
(***************************************************************************)
\* MAX_SECTION_TEXT_LENGTH = int(os.getenv("MAX_SECTION_TEXT_LENGTH", "3000"))
MAX_SECTION_TEXT_LENGTH == 3000

\* Skip if empty or too short (< 10 chars)
MIN_SECTION_CHARS == 10

\* `"section_text" in section`: a key test on a dict; on a str it is a
\* substring test, and no text over Chars holds the word section_text.
HasSectionText(section) ==
  IF IsStr(section) THEN FALSE ELSE Has(section, "section_text")

\* dot_count = section_text.count('.') + section_text.count(U+2026)
dot_count(section_text) == CountChar(section_text, ".") + CountChar(section_text, "u2026")

\* if dot_count > len(section_text) * 0.5: continue
MostlyDots(section_text) == 2 * dot_count(section_text) > TextLen(section_text)

\* if len(section_text) > max_len: section_text = section_text[:max_len] + "..."
Trim(section_text, max_len) ==
  IF TextLen(section_text) > max_len
  THEN Concat(Prefix(section_text, max_len), ELLIPSIS_MARKER)
  ELSE section_text

\* The body of `for section in cleaned["sections"]`: what one entry appends
\* to cleaned_sections (nothing, or one bare string).
CleanSectionOffByOne(section, max_len) ==
  IF ~HasSectionText(section) THEN <<>>
  ELSE LET section_text == Strip(section.section_text.str) IN
       IF TextLen(section_text) <= MIN_SECTION_CHARS THEN <<>>
       ELSE IF MostlyDots(section_text) THEN <<>>
       ELSE <<Str(Trim(section_text, max_len))>>

CleanSection(section, max_len) ==
  IF ~HasSectionText(section) THEN <<>>
  ELSE LET section_text == Strip(section.section_text.str) IN
       IF TextLen(section_text) < MIN_SECTION_CHARS THEN <<>>
       ELSE IF MostlyDots(section_text) THEN <<>>
       ELSE <<Str(Trim(section_text, max_len))>>

\* cleaned_sections after the loop over cleaned["sections"]
CleanedSections(sections, max_len) ==
  Flatten([i \in DOMAIN sections |-> CleanSection(sections[i], max_len)])

\* if cleaned_sections: cleaned["sections"] = cleaned_sections
\* else: cleaned.pop("sections", None)
StoreSectionsKeepEmpty(cleaned, cleaned_sections) ==
  Put(cleaned, "sections", cleaned_sections)

StoreSections(cleaned, cleaned_sections) ==
  IF cleaned_sections # <<>>
  THEN Put(cleaned, "sections", cleaned_sections)
  ELSE Pop(cleaned, "sections")

\* cleaned = node.copy(), then the `if "sections" in cleaned:` block
CleanNodeSections(node, max_len) ==
  IF Has(node, "sections")
  THEN StoreSections(node, CleanedSections(node.sections, max_len))
  ELSE node

\* The children that the comprehension
\*   [clean_toc_tree(child, ...) for child in cleaned["children"]]
\* visits: all of them.
ChildrenToCleanSkipBare(children) ==
  SelectSeq(children, LAMBDA child : Has(child, "sections"))

ChildrenToClean(children) == children

RECURSIVE clean_toc_tree(_, _)
clean_toc_tree(node, max_section_text_length) ==
  LET cleaned == CleanNodeSections(node, max_section_text_length) IN
  IF Has(cleaned, "children") /\ cleaned.children # <<>>
  THEN LET kids == ChildrenToClean(cleaned.children) IN
       Put(cleaned, "children",
           [i \in DOMAIN kids |-> clean_toc_tree(kids[i], max_section_text_length)])
  ELSE cleaned

\* cleaned = node.copy(): a new dict holding node's items, so assigning or
\* popping a key of `cleaned` is not a write to `node`.
CleanedIsTheNodeItself(node) == TRUE

CleanedAliasesNode(node) == FALSE

\* The tree object passed to clean_toc_tree as the call leaves it: the
\* writes to `cleaned` (its sections and children keys) reach the node only
\* if `cleaned` is the node; the lists they assign are new ones; each child
\* object is passed to the recursive call.
RECURSIVE NodeAfterClean(_, _)
NodeAfterClean(node, max_len) ==
  LET written == IF CleanedAliasesNode(node) THEN CleanNodeSections(node, max_len) ELSE node
      kids == Get(node, "children", <<>>)
      kids_after == [i \in DOMAIN kids |-> NodeAfterClean(kids[i], max_len)]
  IN IF Has(node, "children") /\ kids # <<>>
     THEN Put(written, "children",
              IF CleanedAliasesNode(node)
              THEN [i \in DOMAIN kids |-> clean_toc_tree(kids[i], max_len)]
              ELSE kids_after)
     ELSE written

(***************************************************************************)
(* Trees: paths and the nodes at them                                      *)
(***************************************************************************)
ChildrenOf(node) == Get(node, "children", <<>>)

\* The node reached from `node` along the child indices of `path`.
RECURSIVE NodeAt(_, _)
NodeAt(node, path) ==
  IF path = <<>> THEN node ELSE NodeAt(ChildrenOf(node)[path[1]], Tail(path))

\* All paths (sequences of child indices) of `node`.
RECURSIVE PathsOf(_)
PathsOf(node) ==
  {<<>>} \cup UNION { { <<i>> \o p : p \in PathsOf(ChildrenOf(node)[i]) }
                      : i \in DOMAIN ChildrenOf(node) }

(***************************************************************************)
(* Inputs of clean_toc_tree: raw TOC trees as nodes_to_toc_tree writes     *)
(* them, every section entry a dict with node_id, heading_level and        *)
(* section_text.                                                           *)
(***************************************************************************)
MaxLetters == 12
MaxDots == 20
MaxSections == 2

\* blanks, letters, periods, ellipsis characters, blanks
LayoutText(lead, letters, dots, ells, trail) ==
  Concat(Concat(Concat(Concat(Rep(" ", lead), Rep("a", letters)),
                       Rep(".", dots)), Rep("u2026", ells)), Rep(" ", trail))

\* Short texts around the length and dot thresholds.
ProbeTexts ==
  { LayoutText(lead, letters, dots, ells, trail) :
      lead \in 0..1, letters \in 0..MaxLetters, dots \in 0..MaxDots,
      ells \in 0..1, trail \in 0..1 }

\* Texts around the default truncation length.
LongTexts ==
  { Rep("a", MAX_SECTION_TEXT_LENGTH + k) : k \in 0..4 }
    \cup { Concat(Rep("a", MAX_SECTION_TEXT_LENGTH - 2), Rep(".", k)) : k \in 1..4 }

\* 9 letters; 10 letters in blanks; 20 periods; 13 letters
ShapeTexts ==
  { Rep("a", 9), LayoutText(1, 10, 0, 0, 1), Rep(".", 20), Rep("a", 13) }

RawSection(text) ==
  [node_id |-> 1, heading_level |-> 1, section_text |-> Str(text)]

RECURSIVE SeqsUpTo(_, _)
SeqsUpTo(S, n) ==
  IF n = 0 THEN {<<>>}
  ELSE LET shorter == SeqsUpTo(S, n - 1) IN
       shorter \cup { Append(q, x) : q \in {r \in shorter : Len(r) = n - 1}, x \in S }

\* A raw node without sections key, or with 1..n section entries.
RawNodes(titles, n, kids) ==
  { [title |-> t, children |-> kids] : t \in titles }
    \cup { [title |-> t, children |-> kids, sections |-> secs] :
             t \in titles,
             secs \in { [i \in DOMAIN q |-> RawSection(q[i])] :
                          q \in SeqsUpTo(ShapeTexts, n) \ {<<>>} } }

ProbeTrees ==
  { [title |-> "ROOT", children |-> <<>>, sections |-> <<RawSection(t)>>] :
      t \in ProbeTexts \cup LongTexts }

ShapedTrees ==
  LET grand  == {<<>>} \cup { <<g>> : g \in RawNodes({"C"}, 1, <<>>) }
      first  == UNION { RawNodes({"A", "B"}, MaxSections, g) : g \in {<<>>, <<[title |-> "C", children |-> <<>>, sections |-> <<RawSection(Rep("a", 9))>>]>>} }
      second == {<<>>} \cup { <<c>> : c \in UNION { RawNodes({"B"}, 1, g) : g \in grand } }
  IN { [title |-> "ROOT", children |-> <<c1>> \o c2] : c1 \in first, c2 \in second }

CleanerInputs == ProbeTrees \cup ShapedTrees

CleanerMaxLens == {0, 9, 11, MAX_SECTION_TEXT_LENGTH}

IdleCleaner ==
  /\ cl_node = None /\ cl_max_len = 0 /\ cl_result = None
  /\ cl_node_now = None /\ cl_again = None

IdleSplitter ==
  /\ sp_tree = None /\ sp_chunk_size = 0 /\ sp_chunks = <<>> /\ sp_returned = FALSE
  /\ sp_tree_now = None

IdleBuilder == nodes = <<>> /\ root = None

IdleNormalizer ==
  /\ nz_input = None /\ nz_node = None /\ nz_first = None
  /\ nz_iteration = 0 /\ nz_calls = 0

IdleTransformer ==
  /\ tr_pc = "idle" /\ tr_api_key = FALSE /\ tr_toc_tree_data = None
  /\ tr_output_file = <<>> /\ tr_cleaned = None /\ tr_toc_tokens = 0
  /\ tr_chunks = <<>> /\ tr_chunk_num = 0 /\ tr_previous_response = None
  /\ tr_outcome = None /\ tr_log = <<>>

IdlePipeline ==
  /\ pl_impl = "none" /\ pl_pc = "idle" /\ pl_data_folder = None
  /\ pl_output_mindmap = <<>>
  /\ pl_skip_transform = FALSE /\ pl_lookups = 0 /\ pl_document_path = None
  /\ pl_toc_tree = None /\ pl_writes = <<>> /\ pl_outcome = None

IdleServer ==
  /\ sv_disk = None /\ sv_disk_before = None /\ sv_current_document_id = ""
  /\ sv_request = None /\ sv_source = None /\ sv_response = None /\ sv_reads = 0

InitCleaner ==
  /\ cl_node \in CleanerInputs
  /\ cl_max_len \in CleanerMaxLens
  /\ cl_result = None
  /\ cl_node_now = cl_node
  /\ cl_again = None
  /\ IdleSplitter /\ IdleBuilder /\ IdleNormalizer /\ IdleTransformer /\ IdlePipeline
  /\ IdleServer

\* cleaned = clean_toc_tree(node, max_section_text_length)
Clean ==
  /\ cl_node # None
  /\ cl_result = None
  /\ cl_result' = clean_toc_tree(cl_node, cl_max_len)
  /\ cl_node_now' = NodeAfterClean(cl_node_now, cl_max_len)
  /\ UNCHANGED <<cl_node, cl_max_len, cl_again, vars_splitter, vars_builder, vars_normalizer,
               vars_transformer, vars_pipeline, vars_server>>

\* again = clean_toc_tree(cleaned, max_section_text_length)
CleanAgain ==
  /\ cl_result # None
  /\ cl_again = None
  /\ cl_again' = clean_toc_tree(cl_result, cl_max_len)
  /\ UNCHANGED <<cl_node, cl_max_len, cl_result, cl_node_now, vars_splitter, vars_builder,
                 vars_normalizer, vars_transformer, vars_pipeline, vars_server>>

NextCleaner == Clean \/ CleanAgain

SpecCleaner == InitCleaner /\ [][NextCleaner]_vars

(***************************************************************************)
(* Claims about clean_toc_tree                                             *)
(***************************************************************************)
SectionsOf(node) == Get(node, "sections", <<>>)

\* The trimmed text of a raw section entry.
TrimmedText(entry) == Strip(entry.section_text.str)

\* The filter as the specification states it: at least 10 characters after
\* trimming, and at most half of them periods or ellipsis characters.
Survives(entry) ==
  LET t == TrimmedText(entry)
      dots == CountChar(t, ".") + CountChar(t, "u2026")
  IN TextLen(t) >= 10 /\ 2 * dots <= TextLen(t)

\* The indices of the surviving entries, in increasing order.
RECURSIVE SurvivorsFrom(_, _)
SurvivorsFrom(sections, i) ==
  IF i > Len(sections) THEN <<>>
  ELSE (IF Survives(sections[i]) THEN <<i>> ELSE <<>>) \o SurvivorsFrom(sections, i + 1)

Survivors(sections) == SurvivorsFrom(sections, 1)

CleanDone == cl_result # None

\* C4: no string kept in a cleaned node's sections is longer than the
\* section_text it was derived from.
C4_NoSectionGrows ==
  CleanDone =>
    \A p \in PathsOf(cl_node) :
      LET src == SectionsOf(NodeAt(cl_node, p))
          out == SectionsOf(NodeAt(cl_result, p))
          idx == Survivors(src)
      IN \A k \in DOMAIN out :
           k \in DOMAIN idx =>
             TextLen(out[k].str) <= TextLen(src[idx[k]].section_text.str)

\* C5: a section entry is kept exactly when its trimmed text has at least 10
\* characters of which at most half are periods or ellipsis characters; the
\* kept entries stay in order and are bare strings that start with the
\* trimmed text's first max_len characters.
C5_KeepsExactlyTheMeaningful ==
  CleanDone =>
    \A p \in PathsOf(cl_node) :
      LET src == SectionsOf(NodeAt(cl_node, p))
          out == SectionsOf(NodeAt(cl_result, p))
          idx == Survivors(src)
      IN /\ Len(out) = Len(idx)
         /\ \A k \in DOMAIN out :
              /\ IsStr(out[k])
              /\ LET t == TrimmedText(src[idx[k]]) IN
                   IF TextLen(t) <= cl_max_len
                   THEN out[k].str = t
                   ELSE Prefix(out[k].str, cl_max_len) = Prefix(t, cl_max_len)

\* A node with a dropped entry before a kept one has been cleaned, and a
\* 9-letter entry was dropped.
C5_Witness ==
  /\ CleanDone
  /\ \E p \in PathsOf(cl_node) :
       LET src == SectionsOf(NodeAt(cl_node, p))
           out == SectionsOf(NodeAt(cl_result, p))
       IN /\ Len(src) = 2
          /\ src[1].section_text.str = Rep("a", 9)
          /\ TextLen(TrimmedText(src[2])) = 10
          /\ Len(out) = 1
          /\ out[1].str = Rep("a", 10)

\* C6: no cleaned node carries an empty sections list, and a node none of
\* whose entries survive has no sections key.
C6_NoEmptySections ==
  CleanDone =>
    \A p \in PathsOf(cl_result) :
      LET out == NodeAt(cl_result, p) IN
      /\ Has(out, "sections") => Len(out.sections) >= 1
      /\ (p \in PathsOf(cl_node) /\ Survivors(SectionsOf(NodeAt(cl_node, p))) = <<>>)
           => ~Has(out, "sections")

\* A node whose entries were all dropped has been cleaned.
C6_Witness ==
  /\ CleanDone
  /\ \E p \in PathsOf(cl_node) :
       /\ Has(NodeAt(cl_node, p), "sections")
       /\ Len(NodeAt(cl_node, p).sections) = 2
       /\ ~Has(NodeAt(cl_result, p), "sections")

\* C7: the cleaned tree has the paths of the input, and at every path the
\* same title and the same number of children.
C7_SameTopology ==
  CleanDone =>
    /\ PathsOf(cl_result) = PathsOf(cl_node)
    /\ \A p \in PathsOf(cl_node) \cap PathsOf(cl_result) :
         /\ NodeAt(cl_result, p).title = NodeAt(cl_node, p).title
         /\ Len(ChildrenOf(NodeAt(cl_result, p))) = Len(ChildrenOf(NodeAt(cl_node, p)))

\* A tree of depth 2 with two children was cleaned and a child lost its
\* sections key.
C7_Witness ==
  /\ CleanDone
  /\ <<1, 1>> \in PathsOf(cl_node)
  /\ <<2>> \in PathsOf(cl_node)
  /\ Has(NodeAt(cl_node, <<2>>), "sections")
  /\ ~Has(NodeAt(cl_result, <<2>>), "sections")

(***************************************************************************)
(* fallback_llm.py: count_tokens_in_json                                   *)
(*                                                                         *)
(* len(encoding.encode(json.dumps(data))): the tokenizer is an external    *)
(* library.  It is modelled by a count that is deterministic and positive  *)
(* for every JSON value: one token per character of body text, one per     *)
(* title, key and bracket pair.                                            *)
(***************************************************************************)
TextTokens(t) == TextLen(t)

SectionTokens(entry) ==
  IF IsStr(entry) THEN 1 + TextTokens(entry.str)
  ELSE 3 + TextTokens(entry.section_text.str)

\* Tokens of the fields of a node other than children.
FieldTokens(d) ==
  1 + (IF Has(d, "title") THEN 1 ELSE 0)
    + (IF Has(d, "page") THEN 2 ELSE 0)
    + (IF Has(d, "sections")
       THEN 1 + SumSeq([i \in DOMAIN d.sections |-> SectionTokens(d.sections[i])])
       ELSE 0)

RECURSIVE count_tokens_in_json(_)
count_tokens_in_json(data) ==
  FieldTokens(data)
    + (IF Has(data, "children")
       THEN 1 + SumSeq([i \in DOMAIN data.children |->
                          count_tokens_in_json(data.children[i])])
       ELSE 0)

(***************************************************************************)
(* fallback_llm.py: split_tree_into_chunks                                 *)
(***************************************************************************)
\* CHUNK_SIZE = 100000  # 100k tokens per chunk
\* A chunk budget above the single-shot limit.
ChunkSizeAboveLimit == 2 * 100000

CHUNK_SIZE == 100000

\* current_chunk = {"title": tree.get("title", ""), "children": []}
\* for key in ["page", "sections"]: if key in tree: current_chunk[key] = tree[key]
NewChunk(tree) ==
  LET c0 == [title |-> Get(tree, "title", ""), children |-> <<>>]
      c1 == IF Has(tree, "page") THEN Put(c0, "page", tree.page) ELSE c0
  IN IF Has(tree, "sections") THEN Put(c1, "sections", tree.sections) ELSE c1

\* count_tokens_in_json({k: v for k, v in current_chunk.items() if k != "children"})
BaseTokens(current_chunk) == count_tokens_in_json(Pop(current_chunk, "children"))

StartsNewChunkNever(current_tokens, child_tokens, chunk_size, current_chunk) == FALSE

StartsNewChunkIgnoringChild(current_tokens, child_tokens, chunk_size, current_chunk) ==
  current_tokens > chunk_size /\ current_chunk.children # <<>>

\* if current_tokens + child_tokens > chunk_size and current_chunk["children"]:
StartsNewChunk(current_tokens, child_tokens, chunk_size, current_chunk) ==
  current_tokens + child_tokens > chunk_size /\ current_chunk.children # <<>>

\* if current_chunk["children"]: chunks.append(current_chunk)
WithLastChunkForgotten(chunks, current_chunk) == chunks

WithLastChunk(chunks, current_chunk) ==
  IF current_chunk.children # <<>> THEN Append(chunks, current_chunk) ELSE chunks

\* The loop `for child in tree.get("children", [])` from child i on.
RECURSIVE SplitLoop(_, _, _, _, _, _)
SplitLoop(tree, chunk_size, i, chunks, current_chunk, current_tokens) ==
  IF i > Len(ChildrenOf(tree))
  THEN WithLastChunk(chunks, current_chunk)
  ELSE LET child == ChildrenOf(tree)[i]
           child_tokens == count_tokens_in_json(child)
           close == StartsNewChunk(current_tokens, child_tokens, chunk_size, current_chunk)
           chunks1 == IF close THEN Append(chunks, current_chunk) ELSE chunks
           chunk1 == IF close THEN NewChunk(tree) ELSE current_chunk
           tokens1 == IF close THEN BaseTokens(chunk1) ELSE current_tokens
       IN SplitLoop(tree, chunk_size, i + 1, chunks1,
                    Put(chunk1, "children", Append(chunk1.children, child)),
                    tokens1 + child_tokens)

split_tree_into_chunks(tree, chunk_size) ==
  LET current_chunk == NewChunk(tree) IN
  SplitLoop(tree, chunk_size, 1, <<>>, current_chunk, BaseTokens(current_chunk))

\* current_chunk = {"title": ..., "children": []}: a new dict with a new
\* children list, so setting its page and sections keys and appending to
\* its children is not a write to `tree`.
ChunkAliasesTree(tree) == FALSE

\* The tree object passed to split_tree_into_chunks as the call leaves it.
TreeAfterSplit(tree, chunk_size) ==
  LET chunks == split_tree_into_chunks(tree, chunk_size) IN
  IF ChunkAliasesTree(tree)
  THEN (IF chunks = <<>> THEN NewChunk(tree) ELSE chunks[Len(chunks)])
  ELSE tree

(***************************************************************************)
(* Inputs of split_tree_into_chunks: cleaned trees, sections bare strings. *)
(***************************************************************************)
MaxChildren == 4
MaxBudget == 14

CleanLeaf(title, letters) ==
  IF letters = 0 THEN [title |-> title, children |-> <<>>]
  ELSE [title |-> title, children |-> <<>>, sections |-> <<Str(Rep("a", letters))>>]

\* Children of 3, 8, 8, 13 and 100004 tokens.
SplitterChildPool ==
  { CleanLeaf("A", 0), CleanLeaf("A", 3), CleanLeaf("B", 3), CleanLeaf("C", 8),
    CleanLeaf("X", CHUNK_SIZE - 1) }

SplitterRoots ==
  { [title |-> "ROOT"],
    [title |-> "ROOT", sections |-> <<Str(Rep("a", 2))>>],
    [title |-> "ROOT", page |-> 1] }

SplitterInputs ==
  { Put(r, "children", kids) :
      r \in SplitterRoots, kids \in SeqsUpTo(SplitterChildPool, MaxChildren) }
    \cup SplitterRoots

SplitterBudgets == 1..MaxBudget \cup {CHUNK_SIZE}

InitSplitter ==
  /\ sp_tree \in SplitterInputs
  /\ sp_chunk_size \in SplitterBudgets
  /\ sp_chunks = <<>>
  /\ sp_returned = FALSE
  /\ sp_tree_now = sp_tree
  /\ IdleCleaner /\ IdleBuilder /\ IdleNormalizer /\ IdleTransformer /\ IdlePipeline
  /\ IdleServer

\* chunks = split_tree_into_chunks(tree, chunk_size)
Split ==
  /\ sp_tree # None
  /\ ~sp_returned
  /\ sp_chunks' = split_tree_into_chunks(sp_tree, sp_chunk_size)
  /\ sp_returned' = TRUE
  /\ sp_tree_now' = TreeAfterSplit(sp_tree_now, sp_chunk_size)
  /\ UNCHANGED <<sp_tree, sp_chunk_size, vars_cleaner, vars_builder, vars_normalizer,
               vars_transformer, vars_pipeline, vars_server>>

NextSplitter == Split

SpecSplitter == InitSplitter /\ [][NextSplitter]_vars

(***************************************************************************)
(* Claims about split_tree_into_chunks                                     *)
(***************************************************************************)
SplitDone == sp_returned

\* C1: the children lists of the chunks, concatenated in chunk order, are
\* the root's children sequence.
C1_ChunksReconstructChildren ==
  SplitDone =>
    Flatten([i \in DOMAIN sp_chunks |-> sp_chunks[i].children]) = ChildrenOf(sp_tree)

\* A tree of at least three children was split into at least two chunks.
C1_Witness ==
  /\ SplitDone
  /\ Len(ChildrenOf(sp_tree)) >= 3
  /\ Len(sp_chunks) >= 2
  /\ \E i \in DOMAIN sp_chunks : Len(sp_chunks[i].children) >= 2

(***************************************************************************)
(* parser.py: nodes_to_toc_tree                                            *)
(*                                                                         *)
(* A header_path string is modelled by its pieces at the separator: a      *)
(* sequence whose elements are SEP or a separator-free segment.  A node's  *)
(* content is modelled by what HEADER_RE reads of its first line (the      *)
(* number of leading # characters, whether whitespace follows them, the    *)
(* rest of the line) and by the text under that line.                      *)
(***************************************************************************)
\* HEADER_PATH_SEPARATOR = " > "
SEP == " > "

\* str.strip() on the titles the model uses
StripTitle(t) ==
  CASE t = " A " -> "A"
    [] t = "B "  -> "B"
    [] t = " "   -> ""
    [] t = " Mind Map " -> "Mind Map"
    [] OTHER     -> t

\* s.split(sep): the segments between separators, "" between adjacent ones
RECURSIVE SplitAtSep(_, _)
SplitAtSep(tokens, current) ==
  IF tokens = <<>> THEN <<current>>
  ELSE IF tokens[1] = SEP THEN <<current>> \o SplitAtSep(Tail(tokens), "")
  ELSE SplitAtSep(Tail(tokens), tokens[1])

parse_header_path(header_path, sep) ==
  IF header_path = <<>> \/ header_path = <<sep>> THEN <<>>
  ELSE LET s1 == IF header_path[1] = sep THEN Tail(header_path) ELSE header_path
           s2 == IF s1 # <<>> /\ s1[Len(s1)] = sep THEN SubSeq(s1, 1, Len(s1) - 1) ELSE s1
           parts == SplitAtSep(s2, "")
           stripped == [i \in DOMAIN parts |-> StripTitle(parts[i])]
       IN SelectSeq(stripped, LAMBDA part : part # "")

\* heading_level None is written 0
NO_LEVEL == 0

extract_heading_level_title_and_body(node) ==
  IF node.content.empty
  THEN [heading_level |-> NO_LEVEL, heading_title |-> "(empty)", body |-> <<>>]
  ELSE IF ~(node.content.hashes >= 1 /\ node.content.gap)
  THEN [heading_level |-> NO_LEVEL, heading_title |-> "(preamble)",
        body |-> Strip(node.content.text)]
  ELSE [heading_level |-> node.content.hashes,
        heading_title |-> StripTitle(node.content.line),
        body |-> Strip(node.content.text)]

\* The index of the first child of that title, 0 when there is none.
RECURSIVE FindChild(_, _, _)
FindChild(children, title, i) ==
  IF i > Len(children) THEN 0
  ELSE IF Get(children[i], "title", "") = title THEN i
  ELSE FindChild(children, title, i + 1)

\* ensure_child(parent, title): the parent's children after the call, and
\* the index of the child it returns.
EnsureChildAlwaysNew(children, title) ==
  [children |-> Append(children, [title |-> title, children |-> <<>>]),
   index |-> Len(children) + 1]

ensure_child(children, title) ==
  IF FindChild(children, title, 1) # 0
  THEN [children |-> children, index |-> FindChild(children, title, 1)]
  ELSE [children |-> Append(children, [title |-> title, children |-> <<>>]),
        index |-> Len(children) + 1]

\* cur.setdefault("sections", []).append(payload)
StoreSectionOverwriting(cur, payload) == Put(cur, "sections", <<payload>>)

StoreSection(cur, payload) ==
  Put(cur, "sections", Append(Get(cur, "sections", <<>>), payload))

\* cur = root; for t in path: cur = ensure_child(cur, t); then the append:
\* the tree below `cur` after walking `path` from it and storing payload.
RECURSIVE WalkAndStore(_, _, _)
WalkAndStore(cur, path, payload) ==
  IF path = <<>> THEN StoreSection(cur, payload)
  ELSE LET ec == ensure_child(cur.children, path[1]) IN
       Put(cur, "children",
           [ec.children EXCEPT ![ec.index] = WalkAndStore(@, Tail(path), payload)])

\* path = ancestors + [heading_title]
PathOfNode(n) ==
  parse_header_path(Get(n.metadata, "header_path", <<>>), SEP)
    \o <<extract_heading_level_title_and_body(n).heading_title>>

PayloadOfNode(n) ==
  LET info == extract_heading_level_title_and_body(n) IN
  [node_id |-> n.node_id, heading_level |-> info.heading_level,
   section_text |-> Str(info.body)]

\* One iteration of `for n in nodes`
ProcessOne(tree, n) == WalkAndStore(tree, PathOfNode(n), PayloadOfNode(n))

RECURSIVE nodes_to_toc_tree(_)
nodes_to_toc_tree(ns) ==
  IF ns = <<>> THEN [title |-> "ROOT", children |-> <<>>]
  ELSE ProcessOne(nodes_to_toc_tree(SubSeq(ns, 1, Len(ns) - 1)), ns[Len(ns)])

(***************************************************************************)
(* Inputs of nodes_to_toc_tree                                             *)
(***************************************************************************)
MaxNodes == 3

BuilderHeaderPaths ==
  { <<SEP>>, <<SEP, "A", SEP>>, <<SEP, " A ", SEP, SEP, "B">> }

BuilderContents ==
  { [empty |-> TRUE, hashes |-> 0, gap |-> FALSE, line |-> "", text |-> <<>>],
    [empty |-> FALSE, hashes |-> 0, gap |-> FALSE, line |-> "A",
     text |-> LayoutText(1, 3, 0, 0, 1)],
    [empty |-> FALSE, hashes |-> 1, gap |-> TRUE, line |-> "A", text |-> Rep("a", 12)],
    [empty |-> FALSE, hashes |-> 2, gap |-> TRUE, line |-> "B ", text |-> Rep(".", 20)],
    [empty |-> FALSE, hashes |-> 1, gap |-> TRUE, line |-> " ", text |-> <<>>] }

BuilderMetadata ==
  { [header_path |-> hp] : hp \in BuilderHeaderPaths } \cup { [other |-> 0] }

InitBuilder ==
  /\ nodes = <<>>
  /\ root = [title |-> "ROOT", children |-> <<>>]
  /\ IdleCleaner /\ IdleSplitter /\ IdleNormalizer /\ IdleTransformer /\ IdlePipeline
  /\ IdleServer

\* The next node of the input is processed; its node_id is its position.
ProcessNode ==
  /\ root # None
  /\ Len(nodes) < MaxNodes
  /\ \E m \in BuilderMetadata, c \in BuilderContents :
       LET n == [node_id |-> Len(nodes) + 1, metadata |-> m, content |-> c] IN
       /\ nodes' = Append(nodes, n)
       /\ root' = ProcessOne(root, n)
  /\ UNCHANGED <<vars_cleaner, vars_splitter, vars_normalizer, vars_transformer, vars_pipeline, vars_server>>

NextBuilder == ProcessNode

SpecBuilder == InitBuilder /\ [][NextBuilder]_vars

(***************************************************************************)
(* Claims about nodes_to_toc_tree                                          *)
(***************************************************************************)
\* The titles along the index path p, below the root.
RECURSIVE TitlePath(_, _)
TitlePath(node, p) ==
  IF p = <<>> THEN <<>>
  ELSE LET child == ChildrenOf(node)[p[1]] IN <<child.title>> \o TitlePath(child, Tail(p))

\* The non-empty prefixes of the paths the processed nodes resolve to.
WalkedPaths ==
  UNION { { SubSeq(PathOfNode(nodes[k]), 1, j) : j \in 1..Len(PathOfNode(nodes[k])) }
          : k \in DOMAIN nodes }

\* C8: no node of the tree has two children of one title, and the tree has
\* one node per distinct walked path: a path walked again creates no node.
C8_ChildrenKeyedByTitle ==
  root # None =>
    /\ \A p \in PathsOf(root) :
         LET kids == ChildrenOf(NodeAt(root, p)) IN
         \A i, j \in DOMAIN kids : kids[i].title = kids[j].title => i = j
    /\ Cardinality(PathsOf(root)) = 1 + Cardinality(WalkedPaths)

\* Two nodes resolving to one path of length 2 were processed.
C8_Witness ==
  /\ Len(nodes) >= 2
  /\ PathOfNode(nodes[1]) = PathOfNode(nodes[2])
  /\ Len(PathOfNode(nodes[1])) = 2
  /\ Cardinality(PathsOf(root)) = 3

\* The records a node of the tree at title path tp must hold.
RECURSIVE ExpectedSections(_, _)
ExpectedSections(tp, k) ==
  IF k > Len(nodes) THEN <<>>
  ELSE (IF PathOfNode(nodes[k]) = tp THEN <<PayloadOfNode(nodes[k])>> ELSE <<>>)
         \o ExpectedSections(tp, k + 1)

\* C9: ROOT holds no section; every other node holds the records of exactly
\* the processed nodes that resolve to its path, in input order; there is
\* one record per processed node; and building from scratch gives this tree.
C9_OneRecordPerNodeAtItsPath ==
  root # None =>
    /\ ~Has(root, "sections")
    /\ \A p \in PathsOf(root) \ {<<>>} :
         SectionsOf(NodeAt(root, p)) = ExpectedSections(TitlePath(root, p), 1)
    /\ \A k \in DOMAIN nodes :
         \E p \in PathsOf(root) \ {<<>>} : TitlePath(root, p) = PathOfNode(nodes[k])
    /\ SumSeq([k \in DOMAIN nodes |->
                 Cardinality({p \in PathsOf(root) :
                                \E i \in DOMAIN SectionsOf(NodeAt(root, p)) :
                                  SectionsOf(NodeAt(root, p))[i].node_id = k})]) = Len(nodes)
    /\ root = nodes_to_toc_tree(nodes)

\* A heading was repeated with another node in between: its tree node holds
\* the records of the first and the third input node.
C9_Witness ==
  /\ Len(nodes) = 3
  /\ PathOfNode(nodes[1]) = PathOfNode(nodes[3])
  /\ PathOfNode(nodes[1]) # PathOfNode(nodes[2])
  /\ \E p \in PathsOf(root) :
       /\ Len(SectionsOf(NodeAt(root, p))) = 2
       /\ SectionsOf(NodeAt(root, p))[1].node_id = 1
       /\ SectionsOf(NodeAt(root, p))[2].node_id = 3

(***************************************************************************)
(* main.py: collapse_root_unary_nodes                                      *)
(*                                                                         *)
(* Concept nodes are dicts with title and the optional keys description,   *)
(* question, keywords and children; children are dicts.                    *)
(***************************************************************************)
\* max_iterations = 10  # Safety limit to prevent infinite loops
max_iterations == 10

\* str.lower() on the titles the model uses
LowerTitle(t) ==
  CASE t = "Root" -> "root"
    [] t = "ROOT" -> "root"
    [] t = "Mind Map" -> "mind map"
    [] t = "Doc" -> "doc"
    [] t = "N" -> "n"
    [] t = "X" -> "x"
    [] t = "Y" -> "y"
    [] t = "Z" -> "z"
    [] OTHER -> t

GENERIC_TITLES == {"my document mind map", "document mind map", "mind map", "root"}

\* while iteration < max_iterations:
LoopRunsOneMore(iteration) == iteration <= max_iterations

LoopRuns(iteration) == iteration < max_iterations

\* The breaks at the head of the loop body: no children list, more than one
\* child, no child.
RootIsUnary(node) == Has(node, "children") /\ Len(node.children) = 1

MergeTitleAlways(node, child) == Put(node, "title", StripTitle(Get(child, "title", "")))

\* if not root_title or root_title.lower() in [...]: node["title"] = child_title
MergeTitle(node, child) ==
  LET root_title == StripTitle(Get(node, "title", ""))
      child_title == StripTitle(Get(child, "title", ""))
  IN IF root_title = "" \/ LowerTitle(root_title) \in GENERIC_TITLES
     THEN Put(node, "title", child_title)
     ELSE node

MergeDescriptionNotShorter(node, child) ==
  IF Get(child, "description", "") # ""
       /\ (Get(node, "description", "") = ""
             \/ Len(child.description) >= Len(Get(node, "description", "")))
  THEN Put(node, "description", child.description)
  ELSE node

\* if child.get("description"): if not node.get("description") or
\*   len(child description) > len(node description): adopt it
MergeDescription(node, child) ==
  IF Get(child, "description", "") # ""
       /\ (Get(node, "description", "") = ""
             \/ Len(child.description) > Len(Get(node, "description", "")))
  THEN Put(node, "description", child.description)
  ELSE node

\* if child.get("question") and not node.get("question"): adopt it
MergeQuestion(node, child) ==
  IF Get(child, "question", "") # "" /\ Get(node, "question", "") = ""
  THEN Put(node, "question", child.question)
  ELSE node

\* set(d.get("keywords", []))
KeywordSet(d) ==
  LET ks == Get(d, "keywords", <<>>) IN { ks[i] : i \in DOMAIN ks }

KEYWORDS == <<"k1", "k2", "k3">>

\* list(a_set): the order is the interpreter's; the model takes the
\* ascending or the descending order of KEYWORDS, as `order` says.
RECURSIVE ListOfSet(_, _, _)
ListOfSet(S, order, i) ==
  IF i > Len(KEYWORDS) THEN <<>>
  ELSE LET k == IF order = "asc" THEN KEYWORDS[i] ELSE KEYWORDS[Len(KEYWORDS) + 1 - i]
       IN (IF k \in S THEN <<k>> ELSE <<>>) \o ListOfSet(S, order, i + 1)

\* if parent_keywords or child_keywords: node["keywords"] = list(union)
MergeKeywords(node, child, order) ==
  IF KeywordSet(node) \cup KeywordSet(child) # {}
  THEN Put(node, "keywords", ListOfSet(KeywordSet(node) \cup KeywordSet(child), order, 1))
  ELSE node

\* One pass of the loop body on a root with exactly one child.
Promote(node, order) ==
  LET child == node.children[1]
      n1 == MergeTitle(node, child)
      n2 == MergeDescription(n1, child)
      n3 == MergeQuestion(n2, child)
      n4 == MergeKeywords(n3, child, order)
  IN Put(n4, "children", Get(child, "children", <<>>))

\* The while loop: the root and the promotions made when it ends.
RECURSIVE CollapseLoop(_, _, _)
CollapseLoop(node, iteration, order) ==
  IF LoopRuns(iteration) /\ RootIsUnary(node)
  THEN CollapseLoop(Promote(node, order), iteration + 1, order)
  ELSE [node |-> node, iteration |-> iteration]

BelowRootCollapsing(node) ==
  IF Has(node, "children")
  THEN Put(node, "children",
           [i \in DOMAIN node.children |-> CollapseLoop(node.children[i], 0, "asc").node])
  ELSE node

\* collapse_root_unary_nodes(child, is_root_level=False): only the
\* recursion into the children, no collapsing.
RECURSIVE BelowRoot(_)
BelowRoot(node) ==
  IF Has(node, "children")
  THEN Put(node, "children", [i \in DOMAIN node.children |-> BelowRoot(node.children[i])])
  ELSE node

\* collapse_root_unary_nodes(node): the returned (and mutated) node and the
\* promotions made.
collapse_root_unary_nodes(node, order) ==
  LET r == CollapseLoop(node, 0, order) IN
  [node |-> BelowRoot(r.node), iteration |-> r.iteration]

(***************************************************************************)
(* Inputs of collapse_root_unary_nodes: a root, below it a chain of nodes  *)
(* with one child each, and the children of the chain's last node.  The    *)
(* root and the first two nodes below it take any of the profiles, the     *)
(* deeper ones are plain.                                                  *)
(***************************************************************************)
MaxChain == 12
MaxCalls == 2
RichLevels == 3

\* The field is absent from the dict.
ABSENT == "<absent>"

Concept(title, description, question, keywords) ==
  LET n0 == [title |-> title]
      n1 == IF description = ABSENT THEN n0 ELSE Put(n0, "description", description)
      n2 == IF question = ABSENT THEN n1 ELSE Put(n1, "question", question)
  IN IF keywords = <<>> THEN n2 ELSE Put(n2, "keywords", keywords)

Profiles ==
  { Concept("", ABSENT, ABSENT, <<>>),
    Concept("Root", "d", "q1", <<"k1">>),
    Concept("Doc", "long", ABSENT, <<"k2", "k1">>),
    Concept(" Mind Map ", "e", "q2", <<>>),
    Concept("Doc", "", "", <<"k3">>) }

PlainNode == Concept("N", ABSENT, ABSENT, <<>>)

Leaf(title) == Put(Concept(title, "d", ABSENT, <<>>), "children", <<>>)

\* What hangs below the chain: nothing (no key, or an empty list), or two
\* or three children, one of which may itself head a chain.
ChainTails ==
  { <<>>,
    <<Leaf("X"), Leaf("Y")>>,
    <<Leaf("X"), Leaf("Y"), Leaf("Z")>>,
    <<Put(Concept("X", ABSENT, ABSENT, <<>>), "children",
          <<Put(Concept("Y", ABSENT, ABSENT, <<>>), "children", <<Leaf("Z")>>)>>),
      Concept("Y", ABSENT, ABSENT, <<>>)>> }

\* The chain from its node i down (node 1 is the root): nodes 1..depth have
\* one child each, node depth + 1 has the tail as its children (no children
\* key when the tail is empty and tailKey is false).
RECURSIVE ChainFrom(_, _, _, _, _)
ChainFrom(i, depth, profiles, tail, tailKey) ==
  LET me == IF i <= RichLevels THEN profiles[i] ELSE PlainNode IN
  IF i > depth
  THEN (IF tail = <<>> /\ ~tailKey THEN me ELSE Put(me, "children", tail))
  ELSE Put(me, "children", <<ChainFrom(i + 1, depth, profiles, tail, tailKey)>>)

NormalizerInputs ==
  { ChainFrom(1, depth, profiles, tail, tailKey) :
      depth \in 0..MaxChain,
      profiles \in [1..RichLevels -> Profiles],
      tail \in ChainTails,
      tailKey \in BOOLEAN }

InitNormalizer ==
  /\ nz_input \in NormalizerInputs
  /\ nz_node = nz_input
  /\ nz_first = None
  /\ nz_iteration = 0
  /\ nz_calls = 0
  /\ IdleCleaner /\ IdleSplitter /\ IdleBuilder /\ IdleTransformer /\ IdlePipeline
  /\ IdleServer

\* node = collapse_root_unary_nodes(node)
Collapse ==
  /\ nz_node # None
  /\ nz_calls < MaxCalls
  /\ \E order \in {"asc", "desc"} :
       LET r == collapse_root_unary_nodes(nz_node, order) IN
       /\ nz_node' = r.node
       /\ nz_iteration' = r.iteration
       /\ nz_first' = IF nz_calls = 0 THEN r.node ELSE nz_first
  /\ nz_calls' = nz_calls + 1
  /\ UNCHANGED <<nz_input, vars_cleaner, vars_splitter, vars_builder, vars_transformer, vars_pipeline, vars_server>>

NextNormalizer == Collapse

SpecNormalizer == InitNormalizer /\ [][NextNormalizer]_vars

(***************************************************************************)
(* Claims about collapse_root_unary_nodes                                  *)
(***************************************************************************)
\* The number of one-child levels at the top of a tree.
RECURSIVE UnaryDepth(_)
UnaryDepth(node) ==
  IF Len(ChildrenOf(node)) = 1 THEN 1 + UnaryDepth(node.children[1]) ELSE 0

SameRoot(a, b) ==
  /\ Get(a, "title", ABSENT) = Get(b, "title", ABSENT)
  /\ Get(a, "description", ABSENT) = Get(b, "description", ABSENT)
  /\ Get(a, "question", ABSENT) = Get(b, "question", ABSENT)
  /\ KeywordSet(a) = KeywordSet(b)
  /\ ChildrenOf(a) = ChildrenOf(b)

\* C2: applying collapse_root_unary_nodes to its own output changes nothing.
C2_CollapseIdempotent ==
  nz_calls = 2 => SameRoot(nz_node, nz_first)

TOKEN_LIMIT == 175000

\* timeout=300.0  # 5 minutes timeout
LLM_TIMEOUT == 300

\* OpenAI(...) constructed without a timeout argument
NO_TIMEOUT == 0

\* LLM_MODEL = os.getenv("LLM_MODEL", "gpt-4.1")
LLM_MODEL == "gpt-4.1"

RETRY_MODEL == "gpt-4.1-nano"

\* model = "gpt-4.1" if chunk_num % 2 == 1 else "gpt-5.1"
ChunkModel(chunk_num) == IF chunk_num % 2 = 1 THEN "gpt-4.1" ELSE "gpt-5.1"

JSON_EXT == ".json"

\* OUTPUT_MD = os.getenv("OUTPUT_MD", "parser/output/parsed.md")
OUTPUT_MD == <<"parser/output/parsed.md">>

\* OUTPUT_TOC = os.getenv("OUTPUT_TOC", "toc_tree.json")
OUTPUT_TOC == <<"toc_tree", JSON_EXT>>

IntermediateFileIsTocFile(output_file, chunk_num) == OUTPUT_TOC

\* output_file.replace(".json", f"_chunk_{chunk_num}.json")
IntermediateFile(output_file, chunk_num) ==
  [i \in DOMAIN output_file |->
     IF output_file[i] = JSON_EXT
     THEN "_chunk_" \o ToString(chunk_num) \o JSON_EXT
     ELSE output_file[i]]

\* The exceptions sllm.chat raises: the type's name and which of the
\* substrings that the handler looks for the lower-cased message holds.
TokenWords ==
  {"token", "context", "length", "maximum context", "request too large",
   "tokens per min", "tpm"}

LLMErrors ==
  { [type |-> "BadRequestError", words |-> {"maximum context", "context", "length", "token"}],
    [type |-> "RateLimitError", words |-> {"tokens per min", "token", "tpm"}],
    [type |-> "RateLimitError", words |-> {}],
    [type |-> "APIConnectionError", words |-> {}],
    [type |-> "APIStatusError", words |-> {"request too large"}],
    [type |-> "RateLimitError", words |-> {"tpm"}],
    [type |-> "ValueError", words |-> {"length"}] }

LLMOutcomes == { [ok |-> TRUE] } \cup { [ok |-> FALSE, error |-> e] : e \in LLMErrors }

IsTokenErrorOnlyRateLimit(e) == e.type = "RateLimitError" /\ "token" \in e.words

IsTokenErrorAlways(e) == e.type = e.type

\* is_token_error = ("token" in error_msg or ... or
\*   ("ratelimiterror" in error_type.lower() and "token" in error_msg))
is_token_error(e) ==
  \/ "token" \in e.words
  \/ "context" \in e.words
  \/ "length" \in e.words
  \/ "maximum context" \in e.words
  \/ "request too large" \in e.words
  \/ "tokens per min" \in e.words
  \/ "tpm" \in e.words
  \/ (e.type = "RateLimitError" /\ "token" \in e.words)

\* if toc_tokens > TOKEN_LIMIT:
NeedsChunkingAtChunkSize(toc_tokens) == toc_tokens > CHUNK_SIZE

NeedsChunking(toc_tokens) == toc_tokens > TOKEN_LIMIT

\* Log entries
\* schema is the class given to as_structured_llm; kind, previous and data
\* are the user message: its template, the previous response it embeds
\* (None when it embeds none) and the tree whose JSON it embeds.
CallEvent(path, model, timeout, chunk_num, kind, previous, data) ==
  [ev |-> "llm_call", path |-> path, model |-> model, timeout |-> timeout,
   schema |-> "MindmapDocument", system |-> "TRANSFORM_SYSTEM_PROMPT",
   chunk_num |-> chunk_num, kind |-> kind, previous |-> previous, data |-> data]

ReturnEvent(path, result) == [ev |-> "llm_return", path |-> path, result |-> result]

RaiseEvent(path, error) == [ev |-> "llm_raise", path |-> path, error |-> error]

WriteEvent(file, content) == [ev |-> "write", file |-> file, content |-> content]

SplitEvent(n) == [ev |-> "split", chunks |-> n]

ErrorEvent(step) == [ev |-> "transformation_error", step |-> step]

\* messages = [system prompt, TRANSFORM_USER_PROMPT.format(toc_json=...)]
SingleCall(path, model, cleaned_toc_tree) ==
  CallEvent(path, model, LLM_TIMEOUT, 0, "TRANSFORM_USER_PROMPT", None, cleaned_toc_tree)

\* The first-chunk message holds the chunk's JSON, a continuation message
\* previous_response and the chunk's JSON; the LLM is built without timeout.
ChunkCallForgettingPrevious(chunk_num, previous_response, chunk) ==
  CallEvent("chunk", ChunkModel(chunk_num), NO_TIMEOUT, chunk_num,
            IF chunk_num = 1 THEN "first_chunk" ELSE "continuation", None, chunk)

ChunkCall(chunk_num, previous_response, chunk) ==
  CallEvent("chunk", ChunkModel(chunk_num), NO_TIMEOUT, chunk_num,
            IF chunk_num = 1 THEN "first_chunk" ELSE "continuation",
            IF chunk_num = 1 THEN None ELSE previous_response, chunk)

NumberOfCalls(log) == Len(SelectSeq(log, LAMBDA e : e.ev = "llm_call"))

\* resp.raw.model_dump(exclude_none=True) of the answer to the latest call
Response(log) == [mindmap_of_call |-> NumberOfCalls(log)]

Returned(result) == [returned |-> result]

Raised(error) == [raised |-> error]

\* transform_large_tree_chunked up to its first LLM call: the split, and for
\* no chunk at all the final write of None and the AttributeError of
\* final_result.get on None.
EnterChunked(log, cleaned, output_file, io) ==
  LET chunks == split_tree_into_chunks(cleaned, CHUNK_SIZE)
      log1 == Append(log, SplitEvent(Len(chunks)))
  IN IF chunks # <<>>
     THEN [pc |-> "chunk_call", log |-> Append(log1, ChunkCall(1, None, chunks[1])),
           chunks |-> chunks, chunk_num |-> 1, outcome |-> None]
     ELSE IF io = "final_fails"
     THEN [pc |-> "raised", log |-> log1, chunks |-> chunks, chunk_num |-> 0,
           outcome |-> Raised([type |-> "OSError", words |-> {}])]
     ELSE [pc |-> "raised", log |-> Append(log1, WriteEvent(output_file, None)),
           chunks |-> chunks, chunk_num |-> 0,
           outcome |-> Raised([type |-> "AttributeError", words |-> {}])]

GoChunked(r) ==
  /\ tr_pc' = r.pc
  /\ tr_log' = r.log
  /\ tr_chunks' = r.chunks
  /\ tr_chunk_num' = r.chunk_num
  /\ tr_outcome' = r.outcome
  /\ tr_previous_response' = None

IOOutcomes == {"ok", "intermediate_fails", "final_fails"}

SerializeOutcomes == {"ok", "raw_fails", "write_fails"}

(***************************************************************************)
(* Inputs of transform_toc_tree_to_api_format: raw trees whose children    *)
(* are small (one short section) or hold many sections longer than         *)
(* MAX_SECTION_TEXT_LENGTH, 20 of them (about 60000 tokens when cleaned)   *)
(* or 40 (about 120000, more than CHUNK_SIZE).                             *)
(***************************************************************************)
MaxTransformerChildren == 3

ManySections(n) == [i \in 1..n |-> RawSection(Rep("a", MAX_SECTION_TEXT_LENGTH + 500))]

TransformerChildPool ==
  { [title |-> "S", children |-> <<>>, sections |-> <<RawSection(Rep("a", 12))>>],
    [title |-> "B", children |-> <<>>, sections |-> ManySections(20)],
    [title |-> "H", children |-> <<>>, sections |-> ManySections(40)] }

TransformerInputs ==
  { [title |-> "ROOT", children |-> kids] :
      kids \in SeqsUpTo(TransformerChildPool, MaxTransformerChildren) }

OutputFiles ==
  { <<"mindmap_transformed", JSON_EXT>>, <<"mindmap">>, <<"doc", JSON_EXT, ".v2", JSON_EXT>> }

InitTransformer ==
  /\ tr_pc = "start"
  /\ tr_api_key \in BOOLEAN
  /\ tr_toc_tree_data \in TransformerInputs
  /\ tr_output_file \in OutputFiles
  /\ tr_cleaned = None /\ tr_toc_tokens = 0
  /\ tr_chunks = <<>> /\ tr_chunk_num = 0 /\ tr_previous_response = None
  /\ tr_outcome = None /\ tr_log = <<>>
  /\ IdleCleaner /\ IdleSplitter /\ IdleBuilder /\ IdleNormalizer /\ IdlePipeline
  /\ IdleServer

tr_inputs == <<tr_api_key, tr_toc_tree_data, tr_output_file>>

others_transformer ==
  <<vars_cleaner, vars_splitter, vars_builder, vars_normalizer, vars_pipeline, vars_server>>

\* if not os.getenv("OPENAI_API_KEY"): raise RuntimeError(...)
TransformNoKey ==
  /\ tr_pc = "start"
  /\ ~tr_api_key
  /\ tr_pc' = "raised"
  /\ tr_outcome' = Raised([type |-> "RuntimeError", words |-> {}])
  /\ UNCHANGED <<tr_inputs, tr_cleaned, tr_toc_tokens, tr_chunks, tr_chunk_num,
                 tr_previous_response, tr_log, others_transformer>>

\* Lines 166-209: clean, count, then the chunked path or the first call.
TransformStart ==
  /\ tr_pc = "start"
  /\ tr_api_key
  /\ LET cleaned_toc_tree == clean_toc_tree(tr_toc_tree_data, MAX_SECTION_TEXT_LENGTH)
         toc_tokens == count_tokens_in_json(cleaned_toc_tree)
     IN /\ tr_cleaned' = cleaned_toc_tree
        /\ tr_toc_tokens' = toc_tokens
        /\ IF NeedsChunking(toc_tokens)
           THEN \E io \in IOOutcomes :
                  GoChunked(EnterChunked(tr_log, cleaned_toc_tree, tr_output_file, io))
           ELSE /\ tr_pc' = "single_call"
                /\ tr_log' = Append(tr_log, SingleCall("single", LLM_MODEL, cleaned_toc_tree))
                /\ UNCHANGED <<tr_chunks, tr_chunk_num, tr_previous_response, tr_outcome>>
  /\ UNCHANGED <<tr_inputs, others_transformer>>

AfterResponseRepeatsCall(path) ==
  LET result == Response(tr_log)
      log1 == Append(tr_log, ReturnEvent(path, result))
  IN \E ser \in SerializeOutcomes :
       IF ser = "ok"
       THEN /\ tr_pc' = "done"
            /\ tr_log' = Append(log1, WriteEvent(tr_output_file, result))
            /\ tr_outcome' = Returned(result)
            /\ UNCHANGED <<tr_chunks, tr_chunk_num, tr_previous_response>>
       ELSE /\ tr_pc' = "retry_call"
            /\ tr_log' = Append(Append(log1, ErrorEvent(ser)),
                                SingleCall("retry", RETRY_MODEL, tr_cleaned))
            /\ UNCHANGED <<tr_chunks, tr_chunk_num, tr_previous_response, tr_outcome>>

\* Lines 244-268 after sllm.chat returned on `path`: extract, convert and
\* write the result and return it, or on any exception fall back to
\* transform_large_tree_chunked.
AfterResponse(path) ==
  LET result == Response(tr_log)
      log1 == Append(tr_log, ReturnEvent(path, result))
  IN \E ser \in SerializeOutcomes :
       IF ser = "ok"
       THEN /\ tr_pc' = "done"
            /\ tr_log' = Append(log1, WriteEvent(tr_output_file, result))
            /\ tr_outcome' = Returned(result)
            /\ UNCHANGED <<tr_chunks, tr_chunk_num, tr_previous_response>>
       ELSE \E io \in IOOutcomes :
              GoChunked(EnterChunked(Append(log1, ErrorEvent(ser)), tr_cleaned,
                                     tr_output_file, io))

\* The exception of sllm.chat propagates to the caller.
Propagate(path, error) ==
  /\ tr_pc' = "raised"
  /\ tr_log' = Append(tr_log, RaiseEvent(path, error))
  /\ tr_outcome' = Raised(error)
  /\ UNCHANGED <<tr_chunks, tr_chunk_num, tr_previous_response>>

\* Lines 209-242: the first call returns or raises; a token error is
\* retried with the fallback model, another error re-raised.
SingleCallEnds ==
  /\ tr_pc = "single_call"
  /\ \E outcome \in LLMOutcomes :
       IF outcome.ok THEN AfterResponse("single")
       ELSE IF is_token_error(outcome.error)
       THEN /\ tr_pc' = "retry_call"
            /\ tr_log' = Append(Append(tr_log, RaiseEvent("single", outcome.error)),
                                SingleCall("retry", RETRY_MODEL, tr_cleaned))
            /\ UNCHANGED <<tr_chunks, tr_chunk_num, tr_previous_response, tr_outcome>>
       ELSE Propagate("single", outcome.error)
  /\ UNCHANGED <<tr_inputs, tr_cleaned, tr_toc_tokens, others_transformer>>

\* Line 239: the retry returns, or raises inside the except block.
RetryCallEnds ==
  /\ tr_pc = "retry_call"
  /\ \E outcome \in LLMOutcomes :
       IF outcome.ok THEN AfterResponse("retry")
       ELSE Propagate("retry", outcome.error)
  /\ UNCHANGED <<tr_inputs, tr_cleaned, tr_toc_tokens, others_transformer>>

\* fallback_llm.py lines 166-191: the call for chunk chunk_num returns or
\* raises; its result is saved to the intermediate file; then the next
\* chunk's call, or the final write and the return.
ChunkCallEnds ==
  /\ tr_pc = "chunk_call"
  /\ \E outcome \in LLMOutcomes, io \in IOOutcomes :
       IF ~outcome.ok
       THEN Propagate("chunk", outcome.error) /\ UNCHANGED tr_cleaned
       ELSE LET previous_response == Response(tr_log)
                log1 == Append(tr_log, ReturnEvent("chunk", previous_response))
                log2 == Append(log1, WriteEvent(IntermediateFile(tr_output_file, tr_chunk_num),
                                                previous_response))
            IN /\ tr_previous_response' = previous_response
               /\ UNCHANGED <<tr_chunks, tr_cleaned>>
               /\ IF io = "intermediate_fails"
                  THEN /\ tr_pc' = "raised"
                       /\ tr_log' = log1
                       /\ tr_outcome' = Raised([type |-> "OSError", words |-> {}])
                       /\ UNCHANGED tr_chunk_num
                  ELSE IF tr_chunk_num < Len(tr_chunks)
                  THEN /\ tr_pc' = "chunk_call"
                       /\ tr_chunk_num' = tr_chunk_num + 1
                       /\ tr_log' = Append(log2, ChunkCall(tr_chunk_num + 1, previous_response,
                                                       tr_chunks[tr_chunk_num + 1]))
                       /\ UNCHANGED tr_outcome
                  ELSE IF io = "final_fails"
                  THEN /\ tr_pc' = "raised"
                       /\ tr_log' = log2
                       /\ tr_outcome' = Raised([type |-> "OSError", words |-> {}])
                       /\ UNCHANGED tr_chunk_num
                  ELSE /\ tr_pc' = "done"
                       /\ tr_log' = Append(log2, WriteEvent(tr_output_file, previous_response))
                       /\ tr_outcome' = Returned(previous_response)
                       /\ UNCHANGED tr_chunk_num
  /\ UNCHANGED <<tr_inputs, tr_toc_tokens, others_transformer>>

NextTransformer ==
  \/ TransformNoKey
  \/ TransformStart
  \/ SingleCallEnds
  \/ RetryCallEnds
  \/ ChunkCallEnds

SpecTransformer == InitTransformer /\ [][NextTransformer]_vars

(***************************************************************************)
(* Claims about transform_toc_tree_to_api_format                           *)
(***************************************************************************)
\* The tree has been cleaned and counted, and is within the single-shot limit.
UnderLimit == tr_cleaned # None /\ count_tokens_in_json(tr_cleaned) <= TOKEN_LIMIT

SplitterInvoked == \E i \in DOMAIN tr_log : tr_log[i].ev = "split"

\* C10 as claimed: a tree at or under TOKEN_LIMIT never has the chunk
\* splitter invoked, whatever the LLM call and the serialization do.
C10_NeverSplitsUnderLimit == UnderLimit => ~SplitterInvoked

\* C10 as amended: for a tree at or under TOKEN_LIMIT the splitter is
\* invoked exactly when a single-shot call (the first or its retry) has
\* returned and extracting, converting or writing its result raised: never
\* after a call that raised, never after a result that was written, and at
\* most once.
C10_SplitsUnderLimitOnlyAfterFailedSerialization ==
  UnderLimit =>
    /\ \A i \in DOMAIN tr_log :
         tr_log[i].ev = "split" =>
           /\ i >= 3
           /\ tr_log[i - 1].ev = "transformation_error"
           /\ tr_log[i - 2].ev = "llm_return"
           /\ tr_log[i - 2].path \in {"single", "retry"}
           /\ \A j \in DOMAIN tr_log : tr_log[j].ev = "split" => j = i
    /\ \A i \in DOMAIN tr_log :
         tr_log[i].ev = "transformation_error" =>
           i < Len(tr_log) /\ tr_log[i + 1].ev = "split"
    /\ \A i \in DOMAIN tr_log :
         (tr_log[i].ev = "llm_return" /\ tr_log[i].path \in {"single", "retry"}
            /\ i < Len(tr_log) /\ tr_log[i + 1].ev = "write")
           => ~SplitterInvoked
    /\ (tr_pc = "raised" /\ tr_log[Len(tr_log)].ev = "llm_raise"
          /\ tr_log[Len(tr_log)].path \in {"single", "retry"})
           => ~SplitterInvoked

\* A tree under the limit went through the fallback after the retry's
\* result could not be written, and the chunked path returned.
C10_Witness ==
  /\ UnderLimit
  /\ tr_pc = "done"
  /\ SplitterInvoked
  /\ \E i \in DOMAIN tr_log : tr_log[i].ev = "llm_return" /\ tr_log[i].path = "retry"
  /\ Len(tr_chunks) >= 2

(***************************************************************************)
(* Claims about the single-shot path's error handling                      *)
(***************************************************************************)
LogIndexes(ev) == { i \in DOMAIN tr_log : tr_log[i].ev = ev }

CallsOn(paths) == { i \in LogIndexes("llm_call") : tr_log[i].path \in paths }

\* The message of an exception holds one of the seven substrings.
TokenLimitClass(error) == error.words \cap TokenWords # {}

\* The two calls are made with the same schema and the same messages.
SameRequest(a, b) ==
  /\ a.schema = b.schema
  /\ a.system = b.system
  /\ a.kind = b.kind
  /\ a.previous = b.previous
  /\ a.data = b.data

\* The run ended with `error` raised to the caller at log entry i, with no
\* chunked fallback and no file written.
FatalAt(i, error) ==
  /\ i = Len(tr_log)
  /\ tr_pc = "raised"
  /\ tr_outcome = Raised(error)
  /\ LogIndexes("split") = {}
  /\ LogIndexes("write") = {}

\* C11: a token-limit-class error of the first single-shot call is followed
\* by exactly one retry, against the fallback model with the same schema and
\* messages; the single-shot path issues at most 2 calls; an error of the
\* retry propagates to the caller with no further call, no chunked fallback
\* and no file written.
C11_TokenErrorRetriedOnce ==
  /\ \A i \in LogIndexes("llm_raise") :
       (tr_log[i].path = "single" /\ TokenLimitClass(tr_log[i].error)) =>
         /\ i > 1 /\ i < Len(tr_log)
         /\ tr_log[i - 1].ev = "llm_call" /\ tr_log[i - 1].path = "single"
         /\ tr_log[i + 1].ev = "llm_call" /\ tr_log[i + 1].path = "retry"
         /\ tr_log[i + 1].model = RETRY_MODEL
         /\ SameRequest(tr_log[i - 1], tr_log[i + 1])
  /\ Cardinality(CallsOn({"single"})) <= 1
  /\ Cardinality(CallsOn({"retry"})) <= 1
  /\ \A i \in LogIndexes("llm_raise") :
       tr_log[i].path = "retry" =>
         /\ FatalAt(i, tr_log[i].error)
         /\ Cardinality(LogIndexes("llm_call")) = 2

\* The first call raised a token-limit-class error, the retry raised too.
C11_Witness ==
  /\ tr_pc = "raised"
  /\ Len(tr_log) = 4
  /\ tr_log[2].ev = "llm_raise" /\ TokenLimitClass(tr_log[2].error)
  /\ tr_log[4].ev = "llm_raise" /\ tr_log[4].path = "retry"
  /\ tr_log[1].data = tr_cleaned /\ tr_cleaned.children # <<>>

\* C12: an error of the first single-shot call whose message holds none of
\* the seven substrings propagates at once: no retry call, no chunked path,
\* no file written; so does a RateLimitError without "token" (or another
\* of the substrings) in its message.
C12_OtherErrorsPropagate ==
  \A i \in LogIndexes("llm_raise") :
    (tr_log[i].path = "single" /\ ~TokenLimitClass(tr_log[i].error)) =>
      /\ FatalAt(i, tr_log[i].error)
      /\ CallsOn({"retry", "chunk"}) = {}
      /\ Cardinality(LogIndexes("llm_call")) = 1

\* A RateLimitError with none of the substrings ended the run.
C12_Witness ==
  /\ tr_pc = "raised"
  /\ Len(tr_log) = 2
  /\ tr_log[2].ev = "llm_raise"
  /\ tr_log[2].error = [type |-> "RateLimitError", words |-> {}]

\* C13: when a single-shot call (or its retry) returned and extracting,
\* converting or writing its result failed, the chunked path runs from
\* scratch on the cleaned tree: the tree is split with CHUNK_SIZE, every
\* later call is a chunk call, the call for chunk k carrying chunk k, no
\* single-shot call is repeated, and the function returns what the last
\* chunk's call returned or raises what the chunked path raised.
C13_SerializationFailureFallsBackToChunked ==
  \A i \in LogIndexes("transformation_error") :
    /\ i > 1 /\ tr_log[i - 1].ev = "llm_return"
    /\ tr_log[i - 1].path \in {"single", "retry"}
    /\ i < Len(tr_log) /\ tr_log[i + 1].ev = "split"
    /\ tr_chunks = split_tree_into_chunks(tr_cleaned, CHUNK_SIZE)
    /\ tr_log[i + 1].chunks = Len(tr_chunks)
    /\ \A j \in LogIndexes("llm_call") : j > i =>
         /\ tr_log[j].path = "chunk"
         /\ tr_log[j].chunk_num \in 1..Len(tr_chunks)
         /\ tr_log[j].data = tr_chunks[tr_log[j].chunk_num]
    /\ \A j, k \in LogIndexes("llm_call") :
         (j > i /\ k > i /\ tr_log[j].chunk_num = tr_log[k].chunk_num) => j = k
    /\ tr_pc = "done" =>
         /\ Cardinality({ j \in LogIndexes("llm_call") : j > i }) = Len(tr_chunks)
         /\ \E j \in LogIndexes("llm_return") :
              /\ tr_log[j].path = "chunk"
              /\ \A k \in LogIndexes("llm_return") : k <= j
              /\ tr_outcome = Returned(tr_log[j].result)
    /\ tr_pc = "raised" => tr_outcome.raised.type \in
         {"OSError", "AttributeError"} \cup { e.type : e \in LLMErrors }

\* The retry's result could not be written and the chunked path then made
\* one call for each of two chunks and returned.
C13_Witness ==
  /\ tr_pc = "done"
  /\ LogIndexes("transformation_error") # {}
  /\ CallsOn({"retry"}) # {}
  /\ Cardinality(CallsOn({"chunk"})) = 2

(***************************************************************************)
(* Claims about the chunk budget of split_tree_into_chunks                 *)
(***************************************************************************)
ChildCosts(chunk) ==
  [i \in DOMAIN chunk.children |-> count_tokens_in_json(chunk.children[i])]

\* Base cost of the root fields plus the sum of the children's costs.
ChunkCost(chunk) == BaseTokens(chunk) + SumSeq(ChildCosts(chunk))

LastCost(chunk) == ChildCosts(chunk)[Len(chunk.children)]

SingleOversized(chunk) ==
  Len(chunk.children) = 1 /\ ChildCosts(chunk)[1] > sp_chunk_size

\* C14 as claimed: every chunk other than one holding a single oversized
\* child costs at most the budget plus the cost of its last-added child.
C14_SoftBound ==
  SplitDone =>
    \A k \in DOMAIN sp_chunks :
      \/ SingleOversized(sp_chunks[k])
      \/ ChunkCost(sp_chunks[k]) <= sp_chunk_size + LastCost(sp_chunks[k])

\* C14 as amended: a chunk of two or more children costs at most the budget
\* (a child joins a chunk that has children only if the test made before
\* adding it passes); a chunk of one child costs the base cost of the root
\* fields plus that child, untested; so every chunk, a single oversized
\* child's included, is within the budget plus its last-added child
\* whenever the base cost of the root fields is within the budget.
C14_SoftBoundWhenBaseFits ==
  SplitDone =>
    \A k \in DOMAIN sp_chunks :
      LET chunk == sp_chunks[k] IN
      /\ Len(chunk.children) >= 1
      /\ Len(chunk.children) >= 2 => ChunkCost(chunk) <= sp_chunk_size
      /\ Len(chunk.children) = 1 => ChunkCost(chunk) - LastCost(chunk) = BaseTokens(chunk)
      /\ BaseTokens(chunk) <= sp_chunk_size =>
           ChunkCost(chunk) <= sp_chunk_size + LastCost(chunk)
      /\ BaseTokens(chunk) > sp_chunk_size =>
           /\ Len(chunk.children) = 1
           /\ ChunkCost(chunk) > sp_chunk_size + LastCost(chunk)

\* A chunk of several children stayed within the budget and a chunk of one
\* child, never tested against it, went over it.
C14_Witness ==
  /\ SplitDone
  /\ Len(sp_chunks) >= 2
  /\ Len(sp_chunks[1].children) >= 2
  /\ BaseTokens(sp_chunks[1]) <= sp_chunk_size
  /\ ChunkCost(sp_chunks[1]) <= sp_chunk_size
  /\ \E k \in DOMAIN sp_chunks :
       Len(sp_chunks[k].children) = 1 /\ ChunkCost(sp_chunks[k]) > sp_chunk_size

\* The chunk that holds each position of the root's children sequence.
ChunkOfPosition ==
  Flatten([k \in DOMAIN sp_chunks |-> [j \in DOMAIN sp_chunks[k].children |-> k]])

\* C15: a root child that alone costs more than the budget is, wherever it
\* stands among the children, the one child of the chunk that holds it.
C15_OversizedChildAlone ==
  SplitDone =>
    /\ Len(ChunkOfPosition) = Len(ChildrenOf(sp_tree))
    /\ \A i \in DOMAIN ChildrenOf(sp_tree) :
         count_tokens_in_json(ChildrenOf(sp_tree)[i]) > sp_chunk_size =>
           sp_chunks[ChunkOfPosition[i]].children = <<ChildrenOf(sp_tree)[i]>>

\* An oversized child stood between two children that fit the budget.
C15_Witness ==
  /\ SplitDone
  /\ Len(ChildrenOf(sp_tree)) >= 3
  /\ \E i \in 2..(Len(ChildrenOf(sp_tree)) - 1) :
       /\ count_tokens_in_json(ChildrenOf(sp_tree)[i]) > sp_chunk_size
       /\ count_tokens_in_json(ChildrenOf(sp_tree)[i - 1]) <= sp_chunk_size
       /\ count_tokens_in_json(ChildrenOf(sp_tree)[i + 1]) <= sp_chunk_size
       /\ sp_chunk_size = CHUNK_SIZE

(***************************************************************************)
(* Claims about the chunked path                                           *)
(***************************************************************************)
\* The name of a file: its pieces joined.
RECURSIVE FileName(_)
FileName(pieces) == IF pieces = <<>> THEN "" ELSE pieces[1] \o FileName(Tail(pieces))

WritesTo(file) == { i \in LogIndexes("write") : FileName(tr_log[i].file) = FileName(file) }

FileExists(file) == WritesTo(file) # {}

\* What a file holds: what was written to it last.
FileContent(file) ==
  tr_log[CHOOSE i \in WritesTo(file) : \A j \in WritesTo(file) : j <= i].content

\* The log entry of the call for chunk k and of its return.
ChunkCallAt(k) == { i \in CallsOn({"chunk"}) : tr_log[i].chunk_num = k }

ChunkResult(k) ==
  tr_log[(CHOOSE i \in ChunkCallAt(k) : TRUE) + 1].result

\* The call for chunk k raised and ended the run.
ChunkCallFailed(k) ==
  /\ tr_pc = "raised"
  /\ tr_chunk_num = k
  /\ tr_log[Len(tr_log)].ev = "llm_raise"
  /\ tr_log[Len(tr_log)].path = "chunk"

\* The intermediate file of chunk n as the chunked path is meant to name
\* it: _chunk_{n} inserted before the extension of the final file's name.
NameWithChunkSuffix(output_file, n) ==
  IF output_file[Len(output_file)] = JSON_EXT
  THEN SubSeq(output_file, 1, Len(output_file) - 1)
         \o <<"_chunk_" \o ToString(n), JSON_EXT>>
  ELSE output_file \o <<"_chunk_" \o ToString(n)>>

\* C16: the result of chunk k is written to its intermediate file before
\* the call for chunk k+1 is issued; so when the call for chunk k fails,
\* the intermediate files of chunks 1..k-1 exist and each holds the merged
\* result its chunk's call returned.
C16_IntermediateSavedBeforeNextCall ==
  /\ \A i \in CallsOn({"chunk"}) :
       tr_log[i].chunk_num > 1 =>
         /\ tr_log[i - 1].ev = "write"
         /\ tr_log[i - 2].ev = "llm_return"
         /\ tr_log[i - 1].content = tr_log[i - 2].result
         /\ tr_log[i - 2].result = ChunkResult(tr_log[i].chunk_num - 1)
  /\ \A k \in 1..Len(tr_chunks) :
       ChunkCallFailed(k) =>
         \A m \in 1..(k - 1) :
           /\ FileExists(IntermediateFile(tr_output_file, m))
           /\ FileContent(IntermediateFile(tr_output_file, m)) = ChunkResult(m)

\* C17: for every output file name the intermediate file of a chunk is
\* named by inserting _chunk_{n} before the final file's extension, and is
\* a file other than every other chunk's and other than the final file.
C17_IntermediateFilesDistinct ==
  \A k \in 1..Len(tr_chunks) :
    LET file == IntermediateFile(tr_output_file, k) IN
    /\ FileName(file) = FileName(NameWithChunkSuffix(tr_output_file, k))
    /\ FileName(file) # FileName(tr_output_file)
    /\ \A m \in 1..Len(tr_chunks) :
         m # k => FileName(file) # FileName(IntermediateFile(tr_output_file, m))

\* C20: the chunked path calls the LLM once per chunk in chunk order; the
\* message for chunk 1 holds chunk 1 and no previous response, the message
\* for chunk k > 1 holds the result returned for chunk k-1 and chunk k; the
\* value returned, and written last to the final output file, is the result
\* of the last chunk's call.
C20_ChunksInOrder ==
  LET calls == CallsOn({"chunk"}) IN
  /\ \A i \in calls :
       LET k == tr_log[i].chunk_num IN
       /\ k = Cardinality({ j \in calls : j <= i })
       /\ k <= Len(tr_chunks)
       /\ tr_log[i].data = tr_chunks[k]
       /\ k = 1 => tr_log[i].kind = "first_chunk" /\ tr_log[i].previous = None
       /\ k > 1 => /\ tr_log[i].kind = "continuation"
                   /\ tr_log[i].previous = ChunkResult(k - 1)
                   /\ tr_log[i].previous # None
  /\ (tr_pc = "done" /\ calls # {}) =>
       /\ Cardinality(calls) = Len(tr_chunks)
       /\ tr_outcome = Returned(ChunkResult(Len(tr_chunks)))
       /\ tr_log[Len(tr_log)] = WriteEvent(tr_output_file, ChunkResult(Len(tr_chunks)))
       /\ FileContent(tr_output_file) = ChunkResult(Len(tr_chunks))

\* Three chunks were processed and the third call's result returned.
C20_Witness ==
  /\ tr_pc = "done"
  /\ Len(tr_chunks) = 3
  /\ Cardinality(CallsOn({"chunk"})) = 3
  /\ ChunkResult(3) # ChunkResult(2)

(***************************************************************************)
(* main.py: run_pipeline (the API's) and pipeline.py: run_pipeline (the    *)
(* command line's).  The two differ in how a failure ends the call: the    *)
(* API's raises an HTTPException, the command line's returns {}.           *)
(* The data folder is a directory that exists or not and the files in it;  *)
(* a markdown text is the sequence of nodes MarkdownNodeParser makes of    *)
(* it.  Step 4 runs transform_toc_tree_to_api_format as modelled above.    *)
(***************************************************************************)
EmptyDict == [k \in {} |-> None]

\* supported_extensions = ['.pdf', '.docx']
supported_extensions == {".pdf", ".docx"}

\* sorted(files): paths compare by their text, "n.docx" before "n.pdf"
PathBefore(f, g) ==
  \/ f.stem < g.stem
  \/ f.stem = g.stem /\ (f.ext = g.ext \/ f.ext = ".docx")

\* find_document_file(data_folder): the path found, or FileNotFoundError
find_document_file(data_folder) ==
  LET files == { f \in data_folder.files : f.ext \in supported_extensions } IN
  IF ~data_folder.exists \/ files = {}
  THEN Raised([type |-> "FileNotFoundError"])
  ELSE Returned(CHOOSE f \in files : \A g \in files : PathBefore(f, g))

\* raise HTTPException(status_code=..., detail=...) in main.py,
\* print(...) and return {} in pipeline.py
FailureOutcome(impl, status_code) ==
  IF impl = "api"
  THEN Raised([type |-> "HTTPException", status_code |-> status_code])
  ELSE Returned(EmptyDict)

PcAfter(outcome) == IF "raised" \in DOMAIN outcome THEN "raised" ELSE "returned"

\* json.dump then json.load of a tree of dicts with string keys, lists,
\* strings, integers and None gives an equal tree.
json_load(content) == content

\* with open(output_toc) ... json.load(f): what the file holds
ReadFile(writes, file) ==
  LET to == { i \in DOMAIN writes : FileName(writes[i].file) = FileName(file) }
  IN writes[CHOOSE i \in to : \A j \in to : j <= i].content

\* The nodes of a document's markdown
DocNode(i, header_path, hashes, line, text) ==
  [node_id |-> i, metadata |-> [header_path |-> header_path],
   content |-> [empty |-> FALSE, hashes |-> hashes, gap |-> TRUE, line |-> line,
                text |-> text]]

\* An empty markdown, a short one of two headings, and one of three blocks
\* under one heading, each longer than MAX_SECTION_TEXT_LENGTH.
PipelineMarkdowns ==
  { <<>>,
    <<DocNode(1, <<SEP>>, 1, "A", Rep("a", 12)),
      DocNode(2, <<SEP, "A", SEP>>, 2, "B ", Rep("a", 30))>>,
    [i \in 1..3 |-> DocNode(i, <<SEP>>, 1, "A", Rep("a", MAX_SECTION_TEXT_LENGTH + 500))] }

\* toc_tree = nodes_to_toc_tree(parser.get_nodes_from_documents([doc]))
markdown_to_toc_tree(md) == nodes_to_toc_tree(md)

PipelineFolders ==
  { [exists |-> FALSE, files |-> {}],
    [exists |-> TRUE, files |-> {}],
    [exists |-> TRUE, files |-> {[stem |-> 1, ext |-> ".txt"], [stem |-> 2, ext |-> ".md"]}],
    [exists |-> TRUE, files |-> {[stem |-> 2, ext |-> ".pdf"]}],
    [exists |-> TRUE, files |-> {[stem |-> 1, ext |-> ".pdf"], [stem |-> 1, ext |-> ".docx"],
                                 [stem |-> 1, ext |-> ".txt"]}] }

InitPipeline ==
  /\ pl_impl \in {"api", "cli"}
  /\ pl_pc = "start"
  /\ pl_data_folder \in PipelineFolders
  /\ pl_output_mindmap \in OutputFiles
  /\ pl_skip_transform \in BOOLEAN
  /\ pl_lookups = 0 /\ pl_document_path = None /\ pl_toc_tree = None
  /\ pl_writes = <<>> /\ pl_outcome = None
  /\ tr_pc = "idle" /\ tr_api_key \in BOOLEAN /\ tr_toc_tree_data = None
  /\ tr_output_file = <<>> /\ tr_cleaned = None /\ tr_toc_tokens = 0
  /\ tr_chunks = <<>> /\ tr_chunk_num = 0 /\ tr_previous_response = None
  /\ tr_outcome = None /\ tr_log = <<>>
  /\ IdleCleaner /\ IdleSplitter /\ IdleBuilder /\ IdleNormalizer
  /\ IdleServer

pl_inputs == <<pl_impl, pl_data_folder, pl_output_mindmap, pl_skip_transform>>

others_pipeline ==
  <<vars_cleaner, vars_splitter, vars_builder, vars_normalizer, vars_server>>

\* Step 1: find_document_file; FileNotFoundError ends the call.
FindDocument ==
  /\ pl_pc = "start"
  /\ pl_lookups' = pl_lookups + 1
  /\ LET found == find_document_file(pl_data_folder) IN
     IF "raised" \in DOMAIN found
     THEN /\ pl_outcome' = FailureOutcome(pl_impl, 404)
          /\ pl_pc' = PcAfter(FailureOutcome(pl_impl, 404))
          /\ UNCHANGED pl_document_path
     ELSE /\ pl_document_path' = found.returned
          /\ pl_pc' = "parse"
          /\ UNCHANGED pl_outcome
  /\ UNCHANGED <<pl_inputs, pl_toc_tree, pl_writes, vars_transformer, others_pipeline>>

\* Step 2: parse_document_to_markdown returns the markdown, which is
\* written to output_md, or something in the step raises.
ParseDocument ==
  /\ pl_pc = "parse"
  /\ \/ \E markdown_text \in PipelineMarkdowns :
          /\ pl_writes' = Append(pl_writes, WriteEvent(OUTPUT_MD, markdown_text))
          /\ pl_pc' = "toc"
          /\ UNCHANGED pl_outcome
     \/ /\ pl_outcome' = FailureOutcome(pl_impl, 500)
        /\ pl_pc' = PcAfter(FailureOutcome(pl_impl, 500))
        /\ UNCHANGED pl_writes
  /\ UNCHANGED <<pl_inputs, pl_lookups, pl_document_path, pl_toc_tree, vars_transformer,
                 others_pipeline>>

\* Step 3: the markdown is read back, the TOC tree built and written to
\* output_toc; then, unless skip_transform, step 4 starts:
\* transform_toc_tree_to_mindmap loads the tree from output_toc and calls
\* transform_toc_tree_to_api_format(toc_tree_data, output_file).
BuildToc ==
  /\ pl_pc = "toc"
  /\ \E io \in {"ok", "toc_write_fails"} :
       LET md == ReadFile(pl_writes, OUTPUT_MD)
           toc_tree == markdown_to_toc_tree(md)
           writes == Append(pl_writes, WriteEvent(OUTPUT_TOC, toc_tree))
       IN IF io = "toc_write_fails"
          THEN /\ pl_outcome' = FailureOutcome(pl_impl, 500)
               /\ pl_pc' = PcAfter(FailureOutcome(pl_impl, 500))
               /\ UNCHANGED <<pl_toc_tree, pl_writes, vars_transformer>>
          ELSE /\ pl_toc_tree' = toc_tree
               /\ pl_writes' = writes
               /\ IF pl_skip_transform
                  THEN /\ pl_outcome' = Returned(EmptyDict)
                       /\ pl_pc' = "returned"
                       /\ UNCHANGED vars_transformer
                  ELSE /\ pl_pc' = "transform"
                       /\ tr_pc' = "start"
                       /\ tr_toc_tree_data' = json_load(ReadFile(writes, OUTPUT_TOC))
                       /\ tr_output_file' = pl_output_mindmap
                       /\ UNCHANGED <<pl_outcome, tr_api_key, tr_cleaned, tr_toc_tokens,
                                      tr_chunks, tr_chunk_num, tr_previous_response,
                                      tr_outcome, tr_log>>
  /\ UNCHANGED <<pl_inputs, pl_lookups, pl_document_path, others_pipeline>>

\* Step 4 ends: the transformation's result is returned, or its exception
\* caught and turned into the failure outcome.
TransformEnds ==
  /\ pl_pc = "transform"
  /\ tr_pc \in {"done", "raised"}
  /\ IF tr_pc = "done"
     THEN /\ pl_outcome' = Returned(tr_outcome.returned)
          /\ pl_pc' = "returned"
     ELSE /\ pl_outcome' = FailureOutcome(pl_impl, 500)
          /\ pl_pc' = PcAfter(FailureOutcome(pl_impl, 500))
  /\ UNCHANGED <<pl_inputs, pl_lookups, pl_document_path, pl_toc_tree, pl_writes,
                 vars_transformer, others_pipeline>>

NextPipeline ==
  \/ FindDocument
  \/ ParseDocument
  \/ BuildToc
  \/ TransformNoKey
  \/ TransformStart
  \/ SingleCallEnds
  \/ RetryCallEnds
  \/ ChunkCallEnds
  \/ TransformEnds

SpecPipeline == InitPipeline /\ [][NextPipeline]_vars

(***************************************************************************)
(* Claims about run_pipeline                                               *)
(***************************************************************************)
\* Every file written during the call, in order: run_pipeline's own writes,
\* then the transformation's.
DiskWrites == pl_writes \o SelectSeq(tr_log, LAMBDA e : e.ev = "write")

OnDisk(file) == \E i \in DOMAIN DiskWrites : FileName(DiskWrites[i].file) = FileName(file)

PipelineFinished == pl_pc \in {"returned", "raised"}

\* C18: when the TOC tree was built and written and the transformation then
\* raised, the TOC tree file holds the built tree when run_pipeline ends.
C18_TocSurvivesFailedTransformation ==
  (PipelineFinished /\ pl_toc_tree # None /\ tr_pc = "raised") =>
    /\ OnDisk(OUTPUT_TOC)
    /\ ReadFile(DiskWrites, OUTPUT_TOC) = pl_toc_tree
    /\ pl_toc_tree = markdown_to_toc_tree(ReadFile(DiskWrites, OUTPUT_MD))

\* The transformation failed after it had written files of its own.
C18_Witness ==
  /\ PipelineFinished
  /\ pl_toc_tree # None /\ pl_toc_tree.children # <<>>
  /\ tr_pc = "raised"
  /\ LogIndexes("write") # {}

NotFound == ~pl_data_folder.exists \/
  \A f \in pl_data_folder.files : f.ext \notin supported_extensions

\* C19: when the data folder is missing or holds no supported document,
\* run_pipeline, the API's and the command line's alike, ends by raising a
\* not-found condition to its caller, after one lookup and without writing
\* the markdown, TOC or mindmap file.
C19_NotFoundSurfaced ==
  (PipelineFinished /\ NotFound) =>
    /\ pl_outcome = Raised([type |-> "HTTPException", status_code |-> 404])
    /\ pl_lookups = 1
    /\ DiskWrites = <<>>

(***************************************************************************)
(* Claims about what collapse_root_unary_nodes merges into the root        *)
(***************************************************************************)
\* The first k nodes of the chain below a root, from the top.
RECURSIVE ChainNodes(_, _)
ChainNodes(node, k) ==
  IF k = 0 THEN <<>> ELSE <<node.children[1]>> \o ChainNodes(node.children[1], k - 1)

\* The nodes promoted into the root by the first call.
Promoted == ChainNodes(nz_input, nz_iteration)

\* The root and the promoted nodes, in root-to-leaf order.
MergedNodes == <<nz_input>> \o Promoted

\* The title after the promotions when, at each one, the child's title is
\* adopted exactly if the current title is empty or, lower-cased, a generic
\* placeholder.
RECURSIVE TitleByExactMatch(_, _)
TitleByExactMatch(title, chain) ==
  IF chain = <<>> THEN title
  ELSE TitleByExactMatch(
         IF title = "" \/ LowerTitle(title) \in GENERIC_TITLES
         THEN Get(chain[1], "title", "") ELSE title,
         Tail(chain))

\* The same with surrounding whitespace stripped from both titles first.
RECURSIVE TitleByStrippedMatch(_, _)
TitleByStrippedMatch(title, chain) ==
  IF chain = <<>> THEN title
  ELSE TitleByStrippedMatch(
         IF StripTitle(title) = "" \/ LowerTitle(StripTitle(title)) \in GENERIC_TITLES
         THEN StripTitle(Get(chain[1], "title", "")) ELSE title,
         Tail(chain))

LastMerged == MergedNodes[Len(MergedNodes)]

\* ROOT -> A -> B -> C, A and B untitled, C with children [X, Y, Z]
UntitledChainExample ==
  /\ UnaryDepth(nz_input) = 3
  /\ LowerTitle(nz_input.title) = "root"
  /\ Promoted[1].title = "" /\ Promoted[2].title = ""
  /\ Len(ChildrenOf(Promoted[3])) = 3

\* C21 as claimed: at each promotion the root takes the child's title
\* exactly when its own is empty or case-insensitively equal to a generic
\* placeholder; for ROOT -> A -> B -> C the result has C's title and C's
\* children.
C21_TitleAdoptedIffGeneric ==
  nz_calls = 1 =>
    /\ Get(nz_node, "title", "") = TitleByExactMatch(Get(nz_input, "title", ""), Promoted)
    /\ UntitledChainExample =>
         /\ nz_node.title = Promoted[3].title
         /\ ChildrenOf(nz_node) = ChildrenOf(Promoted[3])

\* C21 as amended: the comparison is made on the titles with surrounding
\* whitespace stripped: the root takes the child's stripped title exactly
\* when its own stripped title is empty or case-insensitively equal to a
\* generic placeholder, and otherwise keeps its title as it is; for
\* ROOT -> A -> B -> C the result has C's stripped title and C's children.
C21_TitleAdoptedIffGenericWhenStripped ==
  nz_calls = 1 =>
    /\ Get(nz_node, "title", "") = TitleByStrippedMatch(Get(nz_input, "title", ""), Promoted)
    /\ UntitledChainExample =>
         /\ nz_node.title = StripTitle(Promoted[3].title)
         /\ ChildrenOf(nz_node) = ChildrenOf(Promoted[3])

\* ROOT -> A -> B -> C was collapsed to a root with C's title and children.
C21_Witness ==
  /\ nz_calls = 1
  /\ UntitledChainExample
  /\ nz_node.title = StripTitle(Promoted[3].title)
  /\ nz_node.title # ""
  /\ Len(nz_node.children) = 3

Descriptions == [i \in DOMAIN MergedNodes |-> Get(MergedNodes[i], "description", "")]

Questions == [i \in DOMAIN MergedNodes |-> Get(MergedNodes[i], "question", "")]

\* C22: the root's description is the longest among the root's own and the
\* promoted nodes', the earliest of the longest; its question is the first
\* non-empty one in the same order; with none to take, the root keeps what
\* it had.
C22_LongestDescriptionFirstQuestion ==
  nz_calls = 1 =>
    /\ IF \A i \in DOMAIN Descriptions : Descriptions[i] = ""
       THEN Get(nz_node, "description", ABSENT) = Get(nz_input, "description", ABSENT)
       ELSE \E i \in DOMAIN Descriptions :
              /\ nz_node.description = Descriptions[i]
              /\ \A j \in DOMAIN Descriptions : Len(Descriptions[j]) <= Len(Descriptions[i])
              /\ \A j \in 1..(i - 1) : Len(Descriptions[j]) < Len(Descriptions[i])
    /\ IF \A i \in DOMAIN Questions : Questions[i] = ""
       THEN Get(nz_node, "question", ABSENT) = Get(nz_input, "question", ABSENT)
       ELSE \E i \in DOMAIN Questions :
              /\ nz_node.question = Questions[i]
              /\ Questions[i] # ""
              /\ \A j \in 1..(i - 1) : Questions[j] = ""

\* Two descriptions of the same length met, the earlier one stayed; the
\* question came from a promoted node.
C22_Witness ==
  /\ nz_calls = 1
  /\ nz_iteration >= 2
  /\ Descriptions[1] = "" /\ Descriptions[2] = "d" /\ Descriptions[3] = "e"
  /\ nz_node.description = "d"
  /\ Questions[1] = "" /\ Questions[2] = "q1" /\ Questions[3] = "q2"
  /\ nz_node.question = "q1"

\* C23: the root's children are the children of the last promoted node,
\* each subtree as it was in the input, its own single-child chains
\* included.
C23_OnlyRootChainChanges ==
  nz_calls = 1 =>
    /\ ChildrenOf(nz_node) = ChildrenOf(LastMerged)
    /\ \A i \in DOMAIN ChildrenOf(nz_node) :
         UnaryDepth(nz_node.children[i]) = UnaryDepth(ChildrenOf(LastMerged)[i])

\* Below the promoted chain a child heading a chain of its own was kept.
C23_Witness ==
  /\ nz_calls = 1
  /\ nz_iteration >= 2
  /\ Len(ChildrenOf(nz_node)) = 2
  /\ UnaryDepth(nz_node.children[1]) = 2

(***************************************************************************)
(* Claims about the stages' effect on their input, and about re-cleaning   *)
(***************************************************************************)
\* clean_toc_tree and split_tree_into_chunks each run on their own inputs.
InitStages == InitCleaner \/ InitSplitter

NextStages == Clean \/ CleanAgain \/ Split

SpecStages == InitStages /\ [][NextStages]_vars

\* Every node of the two trees has the same title, sections and children.
RECURSIVE SameTree(_, _)
SameTree(a, b) ==
  /\ Get(a, "title", ABSENT) = Get(b, "title", ABSENT)
  /\ Has(a, "sections") = Has(b, "sections")
  /\ Get(a, "sections", <<>>) = Get(b, "sections", <<>>)
  /\ Has(a, "children") = Has(b, "children")
  /\ Len(ChildrenOf(a)) = Len(ChildrenOf(b))
  /\ \A i \in DOMAIN ChildrenOf(a) :
       i \in DOMAIN ChildrenOf(b) /\ SameTree(a.children[i], b.children[i])

\* C24: after clean_toc_tree and after split_tree_into_chunks the tree that
\* was passed in is as it was before the call, node by node.
C24_InputsNotMutated ==
  /\ CleanDone => SameTree(cl_node_now, cl_node) /\ cl_node_now = cl_node
  /\ SplitDone => SameTree(sp_tree_now, sp_tree) /\ sp_tree_now = sp_tree

\* A tree that cleaning changes (a section dropped and the others turned
\* into strings) was cleaned.
C24_Witness ==
  /\ CleanDone
  /\ cl_result # cl_node
  /\ \E p \in PathsOf(cl_node) :
       /\ Has(NodeAt(cl_node, p), "sections") /\ Has(NodeAt(cl_result, p), "sections")
       /\ Len(NodeAt(cl_result, p).sections) < Len(NodeAt(cl_node, p).sections)

\* C30: cleaning a cleaned tree gives the same tree: every section kept.
C30_CleanIdempotent ==
  cl_again # None => cl_again = cl_result

(***************************************************************************)
(* The two budgets, the timeouts and the end of the chunked path.          *)
(***************************************************************************)

\* The log entry of split_tree_into_chunks, and the entries after it: the
\* part of the run that is inside transform_large_tree_chunked.
SplitAt == CHOOSE i \in LogIndexes("split") : TRUE

InChunkedPath(i) == SplitterInvoked /\ i > SplitAt

\* C25 as stated: the budget the chunked path splits with is distinct from
\* and larger than the limit of the single-shot attempt.
C25_ChunkSizeLargerThanLimit ==
  SplitterInvoked =>
    /\ CHUNK_SIZE # TOKEN_LIMIT
    /\ CHUNK_SIZE > TOKEN_LIMIT

\* C25: the budget the chunked path splits with is distinct from and
\* smaller than the limit of the single-shot attempt; the chunks are the
\* split of the cleaned tree with that budget.
C25_ChunkSizeSmallerThanLimit ==
  SplitterInvoked =>
    /\ CHUNK_SIZE # TOKEN_LIMIT
    /\ CHUNK_SIZE < TOKEN_LIMIT
    /\ tr_chunks = split_tree_into_chunks(tr_cleaned, CHUNK_SIZE)

\* A tree that the single-shot attempt accepted (not over TOKEN_LIMIT) but
\* that costs more than CHUNK_SIZE was split into several chunks.
C25_Witness ==
  /\ SplitterInvoked
  /\ tr_toc_tokens <= TOKEN_LIMIT
  /\ tr_toc_tokens > CHUNK_SIZE
  /\ Len(tr_chunks) >= 2

\* C26: every LLM call, the first one, the retry and each chunk call, is
\* made with the timeout of 300 seconds configured.
C26_EveryCallHasTimeout ==
  \A i \in LogIndexes("llm_call") : tr_log[i].timeout = LLM_TIMEOUT

\* No call of the chunked path raised.
NoChunkCallRaised ==
  \A i \in LogIndexes("llm_raise") : tr_log[i].path # "chunk"

\* The results the calls of the chunked path returned.
ChunkResults ==
  { tr_log[i].result : i \in { j \in LogIndexes("llm_return") : tr_log[j].path = "chunk" } }

\* The writes of the chunked path to the final output file.
FinalWrites == { i \in WritesTo(tr_output_file) : InChunkedPath(i) }

ChunkedFinished == SplitterInvoked /\ tr_pc \in {"done", "raised"}

\* C28: when transform_large_tree_chunked finishes and no LLM call raised,
\* what it wrote to the final output file and what it returned is the
\* result of one of its LLM calls and never null, also for a childless root.
C28_ChunkedResultNeverNull ==
  (ChunkedFinished /\ NoChunkCallRaised) =>
    /\ \A i \in FinalWrites :
         tr_log[i].content # None /\ tr_log[i].content \in ChunkResults
    /\ Has(tr_outcome, "returned") =>
         tr_outcome.returned # None /\ tr_outcome.returned \in ChunkResults
    /\ Has(tr_outcome, "raised") => tr_outcome.raised.type = "OSError"

\* C29: the chunked path makes at most one call per chunk, and the first
\* chunk call that raises, also with a token-limit-class error, ends the
\* run with that exception and with no write to the final output file.
C29_ChunkedNeverRetries ==
  SplitterInvoked =>
    /\ Cardinality(CallsOn({"chunk"})) <= Len(tr_chunks)
    /\ \A k \in 1..Len(tr_chunks) : Cardinality(ChunkCallAt(k)) <= 1
    /\ \A i \in LogIndexes("llm_raise") :
         tr_log[i].path = "chunk" =>
           /\ i = Len(tr_log)
           /\ tr_pc = "raised"
           /\ tr_outcome = Raised(tr_log[i].error)
           /\ FinalWrites = {}

\* The same for final files whose name ends in ".json", where the
\* intermediate files are other files than the final one.
C29_ChunkedNeverRetriesJsonNames ==
  tr_output_file[Len(tr_output_file)] = JSON_EXT => C29_ChunkedNeverRetries

(***************************************************************************)
(* main.py: the handlers that serve a mindmap.  A file holds a JSON        *)
(* document, holds text json.load rejects, or does not exist.              *)
(***************************************************************************)
MaxReads == 3

Corrupt == [corrupt |-> TRUE]

HistoryIds == {"doc1", "doc2"}

Metadata(id) == [id |-> id, document_name |-> "a.pdf", created_at |-> "t"]

\* The structure get_mindmap returns when no mindmap file exists.
WelcomeMindmap ==
  [title |-> "Welcome to Mind Map",
   description |-> "Upload a document to generate a mind map.",
   question |-> "What would you like to explore?",
   children |-> <<>>]

\* Persisted concept trees: the root has two children, or heads a chain of
\* 2 or of MaxChain one-child levels.
ServedTrees ==
  { ChainFrom(1, depth, [i \in 1..RichLevels |-> Concept("Doc", "d", ABSENT, <<"k1">>)],
              <<Leaf("X"), Leaf("Y")>>, TRUE) : depth \in {0, 2, MaxChain} }

\* LOCAL_STORAGE_DIR / id: no folder, or a folder with metadata.json and
\* mindmap_transformed.json.
HistoryFolders(id) ==
  {None} \cup
  { [metadata |-> m, mindmap |-> t] :
      m \in {None, Corrupt, Metadata(id)},
      t \in {None, Corrupt} \cup ServedTrees }

Disks ==
  { [folders |-> f, legacy |-> l] :
      f \in { g \in [HistoryIds -> UNION { HistoryFolders(id) : id \in HistoryIds }] :
                \A id \in HistoryIds : g[id] \in HistoryFolders(id) },
      l \in {None, Corrupt} \cup ServedTrees }

\* path.exists() and what json.load(open(path)) gives.
Exists(content) == content # None

Loads(content) == content # None /\ content # Corrupt

\* LOCAL_STORAGE_DIR / id / "mindmap_transformed.json"
HistoryMindmap(disk, id) ==
  IF id \in HistoryIds /\ disk.folders[id] # None THEN disk.folders[id].mindmap ELSE None

HTTPError(status_code) == Raised([type |-> "HTTPException", status_code |-> status_code])

\* mindmap_data = collapse_root_unary_nodes(json.load(f), is_root_level=True)
LoadAndCollapse(content, order) == collapse_root_unary_nodes(json_load(content), order).node

\* The handler writes the collapsed tree back to the file it read.
FileAfterServeWrittenBack(content, mindmap_data) == mindmap_data

\* What the file holds after the handler served it: the handlers open it
\* with mode "r" only.
FileAfterServe(content, mindmap_data) == content

\* get_mindmap: the file it answers from.
MindmapSource(disk, current_document_id) ==
  IF current_document_id # "" /\ Loads(HistoryMindmap(disk, current_document_id))
  THEN [kind |-> "history", id |-> current_document_id]
  ELSE IF Exists(disk.legacy) THEN [kind |-> "legacy"] ELSE [kind |-> "sample"]

SourceContent(disk, source) ==
  IF source.kind = "history" THEN HistoryMindmap(disk, source.id)
  ELSE IF source.kind = "legacy" THEN disk.legacy
  ELSE None

DiskAfterServe(disk, source, mindmap_data) ==
  LET content == FileAfterServe(SourceContent(disk, source), mindmap_data) IN
  IF source.kind = "history"
  THEN [disk EXCEPT !.folders[source.id].mindmap = content]
  ELSE IF source.kind = "legacy" THEN [disk EXCEPT !.legacy = content]
  ELSE disk

InitServer ==
  /\ sv_disk \in Disks
  /\ sv_disk_before = sv_disk
  /\ sv_current_document_id = ""
  /\ sv_request = None /\ sv_source = None /\ sv_response = None
  /\ sv_reads = 0
  /\ IdleCleaner /\ IdleSplitter /\ IdleBuilder /\ IdleNormalizer /\ IdleTransformer
  /\ IdlePipeline

others_server ==
  <<vars_cleaner, vars_splitter, vars_builder, vars_normalizer, vars_transformer,
    vars_pipeline>>

\* GET /api/mindmap
get_mindmap ==
  /\ sv_disk # None
  /\ sv_reads < MaxReads
  /\ LET source == MindmapSource(sv_disk, sv_current_document_id)
         content == SourceContent(sv_disk, source)
     IN /\ sv_request' = [handler |-> "get_mindmap"]
        /\ sv_source' = source
        /\ IF source.kind = "sample"
           THEN /\ sv_response' = Returned(WelcomeMindmap)
                /\ UNCHANGED sv_disk
           ELSE IF ~Loads(content)
           THEN /\ sv_response' = HTTPError(500)
                /\ UNCHANGED sv_disk
           ELSE \E order \in {"asc", "desc"} :
                  LET mindmap_data == LoadAndCollapse(content, order) IN
                  /\ sv_response' = Returned(mindmap_data)
                  /\ sv_disk' = DiskAfterServe(sv_disk, source, mindmap_data)
  /\ sv_reads' = sv_reads + 1
  /\ UNCHANGED <<sv_disk_before, sv_current_document_id, others_server>>

\* GET /api/history/{history_id}
get_history_item ==
  /\ sv_disk # None
  /\ sv_reads < MaxReads
  /\ \E history_id \in HistoryIds :
       LET folder == sv_disk.folders[history_id]
           source == [kind |-> "history", id |-> history_id]
       IN /\ sv_request' = [handler |-> "get_history_item", history_id |-> history_id]
          /\ IF folder = None \/ ~Exists(folder.metadata)
             THEN /\ sv_response' = HTTPError(404)
                  /\ sv_source' = [kind |-> "none"]
                  /\ UNCHANGED sv_disk
             ELSE IF ~Loads(folder.metadata)
             THEN /\ sv_response' = HTTPError(500)
                  /\ sv_source' = [kind |-> "none"]
                  /\ UNCHANGED sv_disk
             ELSE IF ~Exists(folder.mindmap)
             THEN /\ sv_response' = HTTPError(404)
                  /\ sv_source' = [kind |-> "none"]
                  /\ UNCHANGED sv_disk
             ELSE IF ~Loads(folder.mindmap)
             THEN /\ sv_response' = HTTPError(500)
                  /\ sv_source' = source
                  /\ UNCHANGED sv_disk
             ELSE \E order \in {"asc", "desc"} :
                    LET metadata == json_load(folder.metadata)
                        mindmap_data == LoadAndCollapse(folder.mindmap, order)
                    IN /\ sv_response' =
                            Returned([id |-> metadata.id,
                                      document_name |-> metadata.document_name,
                                      created_at |-> metadata.created_at,
                                      mindmap |-> mindmap_data])
                       /\ sv_source' = source
                       /\ sv_disk' = DiskAfterServe(sv_disk, source, mindmap_data)
  /\ sv_reads' = sv_reads + 1
  /\ UNCHANGED <<sv_disk_before, sv_current_document_id, others_server>>

\* POST /api/history/{history_id}/select
select_history_item ==
  /\ sv_disk # None
  /\ \E history_id \in HistoryIds :
       /\ sv_request' = [handler |-> "select_history_item", history_id |-> history_id]
       /\ IF sv_disk.folders[history_id] = None
          THEN /\ sv_response' = HTTPError(404)
               /\ UNCHANGED sv_current_document_id
          ELSE /\ sv_response' = Returned([history_id |-> history_id])
               /\ sv_current_document_id' = history_id
  /\ sv_source' = [kind |-> "none"]
  /\ UNCHANGED <<sv_disk, sv_disk_before, sv_reads, others_server>>

NextServer == get_mindmap \/ get_history_item \/ select_history_item

SpecServer == InitServer /\ [][NextServer]_vars

\* The last request was answered with a mindmap read from a file.
ServedFromFile ==
  /\ sv_source # None
  /\ sv_source.kind \in {"history", "legacy"}
  /\ Has(sv_response, "returned")

ServedMindmap ==
  IF sv_request.handler = "get_history_item"
  THEN sv_response.returned.mindmap
  ELSE sv_response.returned

\* C27: serving a mindmap, from the current document's file, the legacy
\* file or a history item, answers with the root chain of the file's tree
\* collapsed and leaves every file as it was before the first request.
C27_NormalizedAtReadTimeOnly ==
  /\ sv_disk = sv_disk_before
  /\ ServedFromFile =>
       \E order \in {"asc", "desc"} :
         ServedMindmap = LoadAndCollapse(SourceContent(sv_disk_before, sv_source), order)

\* The third request was answered with a tree collapsed from a file that
\* still holds the chain.
C27_Witness ==
  /\ ServedFromFile
  /\ sv_reads = MaxReads
  /\ UnaryDepth(SourceContent(sv_disk, sv_source)) > 0
  /\ UnaryDepth(ServedMindmap) < UnaryDepth(SourceContent(sv_disk, sv_source))


=============================================================================
